---- MODULE Spec2Model ----
(***************************************************************************)
(* Task store of the Kanban board (DataStructures.py: TaskStatus, Task,    *)
(* KanbanBoard) over the KANBAN and USER tables, and the scan for due      *)
(* tasks (Notification.py: UpcomingTask) over the same KANBAN table.       *)
(*                                                                         *)
(* Python values are modelled as follows.                                  *)
(*   None / Optional[x]   the empty tuple <<>> / the one-element <<x>>     *)
(*   title text           a tuple of one-character strings                 *)
(*   other text           a TLA+ string                                    *)
(*   datetime             an integer instant of the wall clock             *)
(*   a raised exception   a non-empty string in the field exc of a result  *)
(***************************************************************************)
EXTENDS Integers, Sequences, FiniteSets, TLC

VARIABLES
    users,        \* USER table: the PhoneNo of every registered user
    kanban,       \* KANBAN table: the rows, in rowid order
    seq,          \* AUTOINCREMENT counter of KANBAN: the highest ID ever given
    now,          \* wall clock read by datetime.now()
    tasks_cache,  \* KanbanBoard._tasks_cache
    cache_dirty,  \* KanbanBoard._cache_dirty
    last,         \* the last call made on the board: arguments, result, output
    before,       \* the rows of KANBAN when the last call started
    issued,       \* history: the ID of every row inserted so far, in order
    sqlite_master, \* the names of the tables that kanban.db holds
    login,        \* Login.Login: its flag printnoti, whether the loop still runs,
                  \* and the history of the choices it has handled
    main,         \* Kanban.main: where it stands, the license file, the keys
                  \* entered so far and the lines printed
    users_db      \* USER table of users.db (Database.py): the rows, in rowid order

vars == <<users, kanban, seq, now, tasks_cache, cache_dirty, last, before, issued, sqlite_master, login, main, users_db>>

\* The number of calls made on the board in one run; the clock advances by one
\* instant with every call.
MaxNow == 3

None == <<>>

\* Login.Login before its loop: printnoti = True, nothing handled yet.
LoginStarted == [running |-> TRUE, printnoti |-> TRUE, trace |-> <<>>]

\* Kanban.main once LicenseInput has returned True and Login.Login() runs.
MainInLogin == [pc |-> "Login", LICENSE_FILE |-> None, keys |-> <<>>, printed |-> <<>>]
Some(x) == <<x>>
Range(s) == {s[i] : i \in 1..Len(s)}

(***************************************************************************)
(* Text                                                                    *)
(***************************************************************************)
RECURSIVE lstrip(_)
lstrip(s) == IF s # <<>> /\ Head(s) = " " THEN lstrip(Tail(s)) ELSE s

RECURSIVE rstrip(_)
rstrip(s) == IF s # <<>> /\ s[Len(s)] = " " THEN rstrip(SubSeq(s, 1, Len(s) - 1)) ELSE s

\* str.strip()
strip(s) == rstrip(lstrip(s))

\* The year, month and day fields that the pattern %Y-%m-%d reads in a text,
\* or <<>> when the text does not have that shape.
DateFields(s) ==
    CASE s = "2024-01-09" -> <<2024, 1, 9>>
      [] s = "2024-01-10" -> <<2024, 1, 10>>
      [] s = "2024-01-20" -> <<2024, 1, 20>>
      [] s = "2024-02-30" -> <<2024, 2, 30>>
      [] s = "2024-13-45" -> <<2024, 13, 45>>
      [] OTHER -> <<>>

IsLeap(y) == (y % 4 = 0 /\ y % 100 # 0) \/ y % 400 = 0

DaysInMonth(y, m) ==
    IF m = 2 THEN (IF IsLeap(y) THEN 29 ELSE 28)
    ELSE IF m \in {4, 6, 9, 11} THEN 30 ELSE 31

\* datetime.strptime(date_str, "%Y-%m-%d") succeeds
strptime_ok(s) ==
    LET f == DateFields(s) IN
    /\ f # <<>>
    /\ f[2] \in 1..12
    /\ f[3] \in 1..DaysInMonth(f[1], f[2])

\* The text the storage keeps for a datetime, and datetime.fromisoformat of it.
\* A text that is not in ISO format is a record without the field iso.
isoformat(t) == [iso |-> t]
fromisoformat(s) ==
    IF "iso" \in DOMAIN s THEN [exc |-> "", value |-> s.iso]
    ELSE [exc |-> "ValueError: Invalid isoformat string", value |-> None]

(***************************************************************************)
(* TaskStatus                                                              *)
(***************************************************************************)
\* Variant: the enumeration has a fifth member.
get_valid_statuses_with_blocked ==
    <<"To-Do", "In Progress", "Waiting Review", "Finished", "Blocked">>

get_valid_statuses == <<"To-Do", "In Progress", "Waiting Review", "Finished">>

(***************************************************************************)
(* Task                                                                    *)
(***************************************************************************)
\* A value that is not an int, where the code expects the phone number of a
\* user, is written NotAnInt; isinstance(value, int) tells it apart.
NotAnInt == -1
isinstance_int(value) == value # NotAnInt

\* A value that is not a str, where the code expects the text of a timestamp,
\* is a record with the name of its type.
isinstance_str_or_datetime(value) == "type" \notin DOMAIN value

Ok(t) == [exc |-> "", task |-> t]
Raise(e) == [exc |-> e, task |-> None]

\* Variant: the title is tested for emptiness only, not for whitespace.
_validate_constructor_args_no_strip(title, status, person_in_charge, creator) ==
    IF title = <<>> THEN "ValueError: Task title cannot be empty"
    ELSE IF status = "" THEN "ValueError: Task status cannot be empty"
    ELSE IF ~isinstance_int(person_in_charge) \/ person_in_charge <= 0 THEN "ValueError: Person in charge must be a positive integer"
    ELSE IF ~isinstance_int(creator) \/ creator <= 0 THEN "ValueError: Creator must be a positive integer"
    ELSE ""

_validate_constructor_args(title, status, person_in_charge, creator) ==
    IF title = <<>> \/ strip(title) = <<>> THEN "ValueError: Task title cannot be empty"
    ELSE IF status = "" THEN "ValueError: Task status cannot be empty"
    ELSE IF ~isinstance_int(person_in_charge) \/ person_in_charge <= 0 THEN "ValueError: Person in charge must be a positive integer"
    ELSE IF ~isinstance_int(creator) \/ creator <= 0 THEN "ValueError: Creator must be a positive integer"
    ELSE ""

_validate_status(status) ==
    IF status \notin Range(get_valid_statuses) THEN "ValueError: Invalid status" ELSE ""

_initialize_creation_date(creation_date, clock) ==
    IF creation_date = None THEN [exc |-> "", value |-> clock]
    ELSE IF isinstance_str_or_datetime(creation_date[1]) THEN fromisoformat(creation_date[1])
    ELSE [exc |-> "TypeError: Creation date must be datetime, ISO string, or None",
          value |-> None]

\* Task.__init__; clock is what datetime.now() returns during the call.
Task(title, status, person_in_charge, due_date, creator, additional_info, creation_date, editors, task_id, clock) ==
    LET e1 == _validate_constructor_args(title, status, person_in_charge, creator)
        e2 == _validate_status(status)
        d == _initialize_creation_date(creation_date, clock)
    IN  IF e1 # "" THEN Raise(e1)
        ELSE IF e2 # "" THEN Raise(e2)
        ELSE IF d.exc # "" THEN Raise(d.exc)
        ELSE Ok([task_id |-> task_id,
                 title |-> strip(title),
                 status |-> status,
                 person_in_charge |-> person_in_charge,
                 due_date |-> due_date,
                 creator |-> creator,
                 additional_info |-> additional_info,
                 editors |-> editors,
                 creation_date |-> d.value])

_is_valid_date_format(date_str) == strptime_ok(date_str)

\* A row is a record of its columns, so a row of fewer than nine columns is a
\* record of fewer than nine fields.
from_database_row(row, clock) ==
    IF Cardinality(DOMAIN row) < 9
    THEN Raise("ValueError: Invalid row format. Expected 9 columns")
    ELSE
    Task(row.Title, row.Status, row.PersonInCharge, row.DueDate, row.Creator,
         row.AdditionalInfo, Some(row.CreationDate), row.Editors, Some(row.ID), clock)

(***************************************************************************)
(* KanbanInfoDatabase: the storage behind the board                        *)
(***************************************************************************)
CheckUserExist(USER, PhoneNo) == PhoneNo \in USER

GetTaskByID(KANBAN, ID) ==
    LET hit == SelectSeq(KANBAN, LAMBDA r : r.ID = ID)
    IN  IF hit = <<>> THEN None ELSE Some(hit[1])

\* Variant: ID INTEGER PRIMARY KEY without AUTOINCREMENT, where the next ID is
\* one more than the highest ID among the rows that remain.
rowid_max_plus_one(KANBAN, sqlite_sequence) ==
    IF KANBAN = <<>> THEN 1
    ELSE 1 + CHOOSE m \in {KANBAN[i].ID : i \in 1..Len(KANBAN)} :
                 \A j \in 1..Len(KANBAN) : KANBAN[j].ID <= m

\* ID INTEGER PRIMARY KEY AUTOINCREMENT: the ID of the next row inserted is one
\* more than the highest ID the table has ever given, whatever rows remain.
AUTOINCREMENT(KANBAN, sqlite_sequence) == sqlite_sequence + 1

AddTask(KANBAN, sqlite_sequence, Title, Status, PersonInCharge, CreationDate, DueDate, Creator, AdditionalInfo) ==
    [KANBAN |-> Append(KANBAN,
                       [ID |-> AUTOINCREMENT(KANBAN, sqlite_sequence),
                        Title |-> Title,
                        Status |-> Status,
                        PersonInCharge |-> PersonInCharge,
                        CreationDate |-> isoformat(CreationDate),
                        DueDate |-> DueDate,
                        Creator |-> Creator,
                        Editors |-> None,
                        AdditionalInfo |-> AdditionalInfo]),
     sqlite_sequence |-> AUTOINCREMENT(KANBAN, sqlite_sequence)]

EditTask(KANBAN, ID, Title, Status, PersonInCharge, DueDate, Editors, AdditionalInfo) ==
    [i \in 1..Len(KANBAN) |->
        IF KANBAN[i].ID = ID
        THEN [KANBAN[i] EXCEPT !.Title = Title,
                               !.Status = Status,
                               !.PersonInCharge = PersonInCharge,
                               !.DueDate = DueDate,
                               !.Editors = Editors,
                               !.AdditionalInfo = AdditionalInfo]
        ELSE KANBAN[i]]

DelTask(KANBAN, ID) == SelectSeq(KANBAN, LAMBDA r : r.ID # ID)

(***************************************************************************)
(* KanbanBoard                                                             *)
(***************************************************************************)
_is_valid_status(status) == status \in Range(get_valid_statuses)

\* What a call on the board leaves behind: the value returned, the line
\* printed, the table, the AUTOINCREMENT counter, the storage writes made and
\* whether the cache was invalidated.
Outcome(ret, out, KANBAN, sqlite_sequence, calls) ==
    [ret |-> ret, out |-> out, KANBAN |-> KANBAN, sqlite_sequence |-> sqlite_sequence,
     calls |-> calls, invalidated |-> calls # <<>>]

\* Variant: the row is written from the raw arguments first and validated after.
add_task_persists_before_validating(USER, KANBAN, sqlite_sequence, clock, title, status, person_in_charge, due_date, creator, additional_info) ==
    LET db == AddTask(KANBAN, sqlite_sequence, title, status, person_in_charge, clock,
                      due_date, creator, additional_info)
    IN  IF ~_is_valid_status(status)
        THEN Outcome(FALSE, "Add Task Failed: Status is not valid", db.KANBAN,
                     db.sqlite_sequence, <<"AddTask">>)
        ELSE IF ~CheckUserExist(USER, person_in_charge)
        THEN Outcome(FALSE, "Add Task Failed: Person in charge does not exist", db.KANBAN,
                     db.sqlite_sequence, <<"AddTask">>)
        ELSE IF ~CheckUserExist(USER, creator)
        THEN Outcome(FALSE, "Add Task Failed: Creator does not exist", db.KANBAN,
                     db.sqlite_sequence, <<"AddTask">>)
        ELSE LET t == Task(title, status, person_in_charge, due_date, creator,
                           additional_info, None, None, None, clock)
             IN  IF t.exc # ""
                 THEN Outcome(FALSE, t.exc, db.KANBAN, db.sqlite_sequence, <<"AddTask">>)
                 ELSE Outcome(TRUE, "Added", db.KANBAN, db.sqlite_sequence, <<"AddTask">>)

\* Variant: the creator is not looked up in USER.
add_task_no_creator_check(USER, KANBAN, sqlite_sequence, clock, title, status, person_in_charge, due_date, creator, additional_info) ==
    IF ~_is_valid_status(status)
    THEN Outcome(FALSE, "Add Task Failed: Status is not valid", KANBAN, sqlite_sequence, <<>>)
    ELSE IF ~CheckUserExist(USER, person_in_charge)
    THEN Outcome(FALSE, "Add Task Failed: Person in charge does not exist", KANBAN,
                 sqlite_sequence, <<>>)
    ELSE LET t == Task(title, status, person_in_charge, due_date, creator,
                       additional_info, None, None, None, clock)
         IN  IF t.exc # ""
             THEN Outcome(FALSE, t.exc, KANBAN, sqlite_sequence, <<>>)
             ELSE LET task == t.task
                      db == AddTask(KANBAN, sqlite_sequence, task.title, task.status,
                                    task.person_in_charge, task.creation_date,
                                    task.due_date, task.creator, task.additional_info)
                  IN  Outcome(TRUE, "Added", db.KANBAN, db.sqlite_sequence, <<"AddTask">>)

\* Variant: creator and person in charge change places in the call of AddTask.
add_task_swapped_users(USER, KANBAN, sqlite_sequence, clock, title, status, person_in_charge, due_date, creator, additional_info) ==
    IF ~_is_valid_status(status)
    THEN Outcome(FALSE, "Add Task Failed: Status is not valid", KANBAN, sqlite_sequence, <<>>)
    ELSE IF ~CheckUserExist(USER, person_in_charge)
    THEN Outcome(FALSE, "Add Task Failed: Person in charge does not exist", KANBAN,
                 sqlite_sequence, <<>>)
    ELSE IF ~CheckUserExist(USER, creator)
    THEN Outcome(FALSE, "Add Task Failed: Creator does not exist", KANBAN, sqlite_sequence, <<>>)
    ELSE LET t == Task(title, status, person_in_charge, due_date, creator,
                       additional_info, None, None, None, clock)
         IN  IF t.exc # ""
             THEN Outcome(FALSE, t.exc, KANBAN, sqlite_sequence, <<>>)
             ELSE LET task == t.task
                      db == AddTask(KANBAN, sqlite_sequence, task.title, task.status,
                                    task.creator, task.creation_date,
                                    task.due_date, task.person_in_charge, task.additional_info)
                  IN  Outcome(TRUE, "Added", db.KANBAN, db.sqlite_sequence, <<"AddTask">>)

add_task(USER, KANBAN, sqlite_sequence, clock, title, status, person_in_charge, due_date, creator, additional_info) ==
    IF ~_is_valid_status(status)
    THEN Outcome(FALSE, "Add Task Failed: Status is not valid", KANBAN, sqlite_sequence, <<>>)
    ELSE IF ~CheckUserExist(USER, person_in_charge)
    THEN Outcome(FALSE, "Add Task Failed: Person in charge does not exist", KANBAN,
                 sqlite_sequence, <<>>)
    ELSE IF ~CheckUserExist(USER, creator)
    THEN Outcome(FALSE, "Add Task Failed: Creator does not exist", KANBAN, sqlite_sequence, <<>>)
    ELSE LET t == Task(title, status, person_in_charge, due_date, creator,
                       additional_info, None, None, None, clock)
         IN  IF t.exc # ""
             THEN Outcome(FALSE, t.exc, KANBAN, sqlite_sequence, <<>>)
             ELSE LET task == t.task
                      db == AddTask(KANBAN, sqlite_sequence, task.title, task.status,
                                    task.person_in_charge, task.creation_date,
                                    task.due_date, task.creator, task.additional_info)
                  IN  Outcome(TRUE, "Added", db.KANBAN, db.sqlite_sequence, <<"AddTask">>)

\* The property setters of Task, each on a result [exc, task] of the steps
\* before it: an exception raised earlier ends the whole sequence.
set_title(r, value) ==
    IF r.exc # "" THEN r
    ELSE IF value = <<>> \/ strip(value) = <<>> THEN [r EXCEPT !.exc = "ValueError: Task title cannot be empty"]
    ELSE [r EXCEPT !.task.title = strip(value)]

set_status(r, value) ==
    IF r.exc # "" THEN r
    ELSE IF _validate_status(value) # "" THEN [r EXCEPT !.exc = _validate_status(value)]
    ELSE [r EXCEPT !.task.status = value]

\* Variant: the person in charge is not looked up in USER.
set_person_in_charge_unchecked(USER, r, value) ==
    IF r.exc # "" THEN r
    ELSE IF value <= 0 THEN [r EXCEPT !.exc = "ValueError: Person in charge must be a positive integer"]
    ELSE [r EXCEPT !.task.person_in_charge = value]

set_person_in_charge(USER, r, value) ==
    IF r.exc # "" THEN r
    ELSE IF value <= 0 THEN [r EXCEPT !.exc = "ValueError: Person in charge must be a positive integer"]
    ELSE IF ~CheckUserExist(USER, value) THEN [r EXCEPT !.exc = "ValueError: User does not exist"]
    ELSE [r EXCEPT !.task.person_in_charge = value]

set_due_date(r, value) ==
    IF r.exc # "" THEN r
    ELSE IF ~_is_valid_date_format(value) THEN [r EXCEPT !.exc = "ValueError: Due date must be in YYYY-MM-DD format"]
    ELSE [r EXCEPT !.task.due_date = value]

set_editors(USER, r, value) ==
    IF r.exc # "" THEN r
    ELSE IF value # None /\ value[1] <= 0 THEN [r EXCEPT !.exc = "ValueError: Editors must be a positive integer or None"]
    ELSE IF value # None /\ ~CheckUserExist(USER, value[1]) THEN [r EXCEPT !.exc = "ValueError: Editor user does not exist"]
    ELSE [r EXCEPT !.task.editors = value]

set_additional_info(r, value) ==
    IF r.exc # "" THEN r ELSE [r EXCEPT !.task.additional_info = value]

\* 'key' in updates and updates['key'] is not None
Supplied(updates, key) == key \in updates.keys /\ updates[key] # None

\* One step of _apply_task_updates: r carries exc, task and updated_fields.
Recorded(r, field) ==
    IF r.exc # "" THEN r ELSE [r EXCEPT !.updated_fields = Append(@, field)]

\* Variant: a status outside the enumeration is skipped instead of raising.
_apply_task_updates_skips_invalid_status(USER, task, updates, editor) ==
    LET r0 == [exc |-> "", task |-> task, updated_fields |-> <<>>]
        r1 == IF Supplied(updates, "NewTitle")
              THEN Recorded(set_title(r0, updates.NewTitle[1]), "title")
              ELSE r0
        r2 == IF r1.exc = "" /\ Supplied(updates, "NewStatus")
                 /\ _is_valid_status(updates.NewStatus[1])
              THEN Recorded(set_status(r1, updates.NewStatus[1]), "status")
              ELSE r1
        r3 == IF r2.exc = "" /\ Supplied(updates, "NewPersonInCharge")
              THEN Recorded(set_person_in_charge(USER, r2, updates.NewPersonInCharge[1]),
                            "person_in_charge")
              ELSE r2
        r4 == IF r3.exc = "" /\ Supplied(updates, "NewDueDate")
              THEN Recorded(set_due_date(r3, updates.NewDueDate[1]), "due_date")
              ELSE r3
        r5 == IF r4.exc = "" /\ Supplied(updates, "NewAdditionalInfo")
              THEN Recorded(set_additional_info(r4, updates.NewAdditionalInfo[1]),
                            "additional_info")
              ELSE r4
    IN  IF r5.exc = "" /\ r5.updated_fields # <<>>
        THEN Recorded(set_editors(USER, r5, Some(editor)), "editor")
        ELSE r5

\* Variant: the editor is set whether or not a field was updated.
_apply_task_updates_always_sets_editor(USER, task, updates, editor) ==
    LET r0 == [exc |-> "", task |-> task, updated_fields |-> <<>>]
        r1 == IF Supplied(updates, "NewTitle")
              THEN Recorded(set_title(r0, updates.NewTitle[1]), "title")
              ELSE r0
        r2 == IF r1.exc = "" /\ Supplied(updates, "NewStatus")
              THEN IF ~_is_valid_status(updates.NewStatus[1])
                   THEN [r1 EXCEPT !.exc = "ValueError: Invalid status"]
                   ELSE Recorded(set_status(r1, updates.NewStatus[1]), "status")
              ELSE r1
        r3 == IF r2.exc = "" /\ Supplied(updates, "NewPersonInCharge")
              THEN Recorded(set_person_in_charge(USER, r2, updates.NewPersonInCharge[1]),
                            "person_in_charge")
              ELSE r2
        r4 == IF r3.exc = "" /\ Supplied(updates, "NewDueDate")
              THEN Recorded(set_due_date(r3, updates.NewDueDate[1]), "due_date")
              ELSE r3
        r5 == IF r4.exc = "" /\ Supplied(updates, "NewAdditionalInfo")
              THEN Recorded(set_additional_info(r4, updates.NewAdditionalInfo[1]),
                            "additional_info")
              ELSE r4
    IN  IF r5.exc = ""
        THEN Recorded(set_editors(USER, r5, Some(editor)), "editor")
        ELSE r5

\* Variant: the fields are updated but the editor is left as it was.
_apply_task_updates_leaves_editor(USER, task, updates, editor) ==
    LET r0 == [exc |-> "", task |-> task, updated_fields |-> <<>>]
        r1 == IF Supplied(updates, "NewTitle")
              THEN Recorded(set_title(r0, updates.NewTitle[1]), "title")
              ELSE r0
        r2 == IF r1.exc = "" /\ Supplied(updates, "NewStatus")
              THEN IF ~_is_valid_status(updates.NewStatus[1])
                   THEN [r1 EXCEPT !.exc = "ValueError: Invalid status"]
                   ELSE Recorded(set_status(r1, updates.NewStatus[1]), "status")
              ELSE r1
        r3 == IF r2.exc = "" /\ Supplied(updates, "NewPersonInCharge")
              THEN Recorded(set_person_in_charge(USER, r2, updates.NewPersonInCharge[1]),
                            "person_in_charge")
              ELSE r2
        r4 == IF r3.exc = "" /\ Supplied(updates, "NewDueDate")
              THEN Recorded(set_due_date(r3, updates.NewDueDate[1]), "due_date")
              ELSE r3
        r5 == IF r4.exc = "" /\ Supplied(updates, "NewAdditionalInfo")
              THEN Recorded(set_additional_info(r4, updates.NewAdditionalInfo[1]),
                            "additional_info")
              ELSE r4
    IN  r5

_apply_task_updates(USER, task, updates, editor) ==
    LET r0 == [exc |-> "", task |-> task, updated_fields |-> <<>>]
        r1 == IF Supplied(updates, "NewTitle")
              THEN Recorded(set_title(r0, updates.NewTitle[1]), "title")
              ELSE r0
        r2 == IF r1.exc = "" /\ Supplied(updates, "NewStatus")
              THEN IF ~_is_valid_status(updates.NewStatus[1])
                   THEN [r1 EXCEPT !.exc = "ValueError: Invalid status"]
                   ELSE Recorded(set_status(r1, updates.NewStatus[1]), "status")
              ELSE r1
        r3 == IF r2.exc = "" /\ Supplied(updates, "NewPersonInCharge")
              THEN Recorded(set_person_in_charge(USER, r2, updates.NewPersonInCharge[1]),
                            "person_in_charge")
              ELSE r2
        r4 == IF r3.exc = "" /\ Supplied(updates, "NewDueDate")
              THEN Recorded(set_due_date(r3, updates.NewDueDate[1]), "due_date")
              ELSE r3
        r5 == IF r4.exc = "" /\ Supplied(updates, "NewAdditionalInfo")
              THEN Recorded(set_additional_info(r4, updates.NewAdditionalInfo[1]),
                            "additional_info")
              ELSE r4
    IN  IF r5.exc = "" /\ r5.updated_fields # <<>>
        THEN Recorded(set_editors(USER, r5, Some(editor)), "editor")
        ELSE r5

\* Variant: the fields set before an exception are written all the same.
edit_task_partial_write(USER, KANBAN, sqlite_sequence, clock, task_id, editor, updates) ==
    LET task_data == GetTaskByID(KANBAN, task_id) IN
    IF task_data = None
    THEN Outcome(FALSE, "Edit Task Failed: Task not found", KANBAN, sqlite_sequence, <<>>)
    ELSE IF ~CheckUserExist(USER, editor)
    THEN Outcome(FALSE, "Edit Task Failed: Editor does not exist", KANBAN, sqlite_sequence, <<>>)
    ELSE LET current == from_database_row(task_data[1], clock) IN
         IF current.exc # ""
         THEN Outcome(FALSE, current.exc, KANBAN, sqlite_sequence, <<>>)
         ELSE LET r == _apply_task_updates(USER, current.task, updates, editor)
                  written == EditTask(KANBAN, task_id, r.task.title, r.task.status,
                                      r.task.person_in_charge, r.task.due_date,
                                      r.task.editors, r.task.additional_info)
              IN  IF r.exc # ""
                  THEN Outcome(FALSE, r.exc, written, sqlite_sequence, <<"EditTask">>)
                  ELSE IF r.updated_fields = <<>>
                  THEN Outcome(TRUE, "No valid changes specified", KANBAN, sqlite_sequence, <<>>)
                  ELSE Outcome(TRUE, "Updated task", written, sqlite_sequence, <<"EditTask">>)

\* Variant: the edited task is deleted and inserted again.
edit_task_readd(USER, KANBAN, sqlite_sequence, clock, task_id, editor, updates) ==
    LET task_data == GetTaskByID(KANBAN, task_id) IN
    IF task_data = None
    THEN Outcome(FALSE, "Edit Task Failed: Task not found", KANBAN, sqlite_sequence, <<>>)
    ELSE IF ~CheckUserExist(USER, editor)
    THEN Outcome(FALSE, "Edit Task Failed: Editor does not exist", KANBAN, sqlite_sequence, <<>>)
    ELSE LET current == from_database_row(task_data[1], clock) IN
         IF current.exc # ""
         THEN Outcome(FALSE, current.exc, KANBAN, sqlite_sequence, <<>>)
         ELSE LET r == _apply_task_updates(USER, current.task, updates, editor) IN
              IF r.exc # ""
              THEN Outcome(FALSE, r.exc, KANBAN, sqlite_sequence, <<>>)
              ELSE IF r.updated_fields = <<>>
              THEN Outcome(TRUE, "No valid changes specified", KANBAN, sqlite_sequence, <<>>)
              ELSE LET db == AddTask(DelTask(KANBAN, task_id), sqlite_sequence,
                                     r.task.title, r.task.status, r.task.person_in_charge,
                                     clock, r.task.due_date, editor, r.task.additional_info)
                   IN  Outcome(TRUE, "Updated task", db.KANBAN, db.sqlite_sequence,
                               <<"DelTask", "AddTask">>)

\* Variant: a task that is not found is not reported; building the task from
\* the missing row raises instead.
edit_task_no_lookup_check(USER, KANBAN, sqlite_sequence, clock, task_id, editor, updates) ==
    LET task_data == GetTaskByID(KANBAN, task_id) IN
    IF ~CheckUserExist(USER, editor)
    THEN Outcome(FALSE, "Edit Task Failed: Editor does not exist", KANBAN, sqlite_sequence, <<>>)
    ELSE IF task_data = None
    THEN Outcome(FALSE, "TypeError: object of type 'NoneType' has no len()", KANBAN,
                 sqlite_sequence, <<>>)
    ELSE LET current == from_database_row(task_data[1], clock) IN
         IF current.exc # ""
         THEN Outcome(FALSE, current.exc, KANBAN, sqlite_sequence, <<>>)
         ELSE LET r == _apply_task_updates(USER, current.task, updates, editor) IN
              IF r.exc # ""
              THEN Outcome(FALSE, r.exc, KANBAN, sqlite_sequence, <<>>)
              ELSE IF r.updated_fields = <<>>
              THEN Outcome(TRUE, "No valid changes specified", KANBAN, sqlite_sequence, <<>>)
              ELSE Outcome(TRUE, "Updated task",
                           EditTask(KANBAN, task_id, r.task.title, r.task.status,
                                    r.task.person_in_charge, r.task.due_date,
                                    r.task.editors, r.task.additional_info),
                           sqlite_sequence, <<"EditTask">>)

\* Variant: the additional information is written from the call's arguments,
\* so it is emptied when the call did not supply it.
edit_task_info_from_arguments(USER, KANBAN, sqlite_sequence, clock, task_id, editor, updates) ==
    LET task_data == GetTaskByID(KANBAN, task_id) IN
    IF task_data = None
    THEN Outcome(FALSE, "Edit Task Failed: Task not found", KANBAN, sqlite_sequence, <<>>)
    ELSE IF ~CheckUserExist(USER, editor)
    THEN Outcome(FALSE, "Edit Task Failed: Editor does not exist", KANBAN, sqlite_sequence, <<>>)
    ELSE LET current == from_database_row(task_data[1], clock) IN
         IF current.exc # ""
         THEN Outcome(FALSE, current.exc, KANBAN, sqlite_sequence, <<>>)
         ELSE LET r == _apply_task_updates(USER, current.task, updates, editor) IN
              IF r.exc # ""
              THEN Outcome(FALSE, r.exc, KANBAN, sqlite_sequence, <<>>)
              ELSE IF r.updated_fields = <<>>
              THEN Outcome(TRUE, "No valid changes specified", KANBAN, sqlite_sequence, <<>>)
              ELSE Outcome(TRUE, "Updated task",
                           EditTask(KANBAN, task_id, r.task.title, r.task.status,
                                    r.task.person_in_charge, r.task.due_date,
                                    r.task.editors,
                                    IF Supplied(updates, "NewAdditionalInfo")
                                    THEN updates.NewAdditionalInfo[1] ELSE ""),
                           sqlite_sequence, <<"EditTask">>)

edit_task(USER, KANBAN, sqlite_sequence, clock, task_id, editor, updates) ==
    LET task_data == GetTaskByID(KANBAN, task_id) IN
    IF task_data = None
    THEN Outcome(FALSE, "Edit Task Failed: Task not found", KANBAN, sqlite_sequence, <<>>)
    ELSE IF ~CheckUserExist(USER, editor)
    THEN Outcome(FALSE, "Edit Task Failed: Editor does not exist", KANBAN, sqlite_sequence, <<>>)
    ELSE LET current == from_database_row(task_data[1], clock) IN
         IF current.exc # ""
         THEN Outcome(FALSE, current.exc, KANBAN, sqlite_sequence, <<>>)
         ELSE LET r == _apply_task_updates(USER, current.task, updates, editor) IN
              IF r.exc # ""
              THEN Outcome(FALSE, r.exc, KANBAN, sqlite_sequence, <<>>)
              ELSE IF r.updated_fields = <<>>
              THEN Outcome(TRUE, "No valid changes specified", KANBAN, sqlite_sequence, <<>>)
              ELSE Outcome(TRUE, "Updated task",
                           EditTask(KANBAN, task_id, r.task.title, r.task.status,
                                    r.task.person_in_charge, r.task.due_date,
                                    r.task.editors, r.task.additional_info),
                           sqlite_sequence, <<"EditTask">>)

\* Variant: success is reported without the row being deleted.
delete_task_keeps_row(KANBAN, sqlite_sequence, clock, task_id) ==
    LET task_data == GetTaskByID(KANBAN, task_id) IN
    IF task_data = None
    THEN Outcome(FALSE, "Delete Task Failed: Task not found", KANBAN, sqlite_sequence, <<>>)
    ELSE LET task == from_database_row(task_data[1], clock) IN
         IF task.exc # ""
         THEN Outcome(FALSE, task.exc, KANBAN, sqlite_sequence, <<>>)
         ELSE Outcome(TRUE, "Deleted", KANBAN, sqlite_sequence, <<"DelTask">>)

delete_task(KANBAN, sqlite_sequence, clock, task_id) ==
    LET task_data == GetTaskByID(KANBAN, task_id) IN
    IF task_data = None
    THEN Outcome(FALSE, "Delete Task Failed: Task not found", KANBAN, sqlite_sequence, <<>>)
    ELSE LET task == from_database_row(task_data[1], clock) IN
         IF task.exc # ""
         THEN Outcome(FALSE, task.exc, KANBAN, sqlite_sequence, <<>>)
         ELSE Outcome(TRUE, "Deleted", DelTask(KANBAN, task_id), sqlite_sequence, <<"DelTask">>)

RECURSIVE delete_tasks_batch_from(_, _, _, _, _, _)
\* The loop of delete_tasks_batch from the i-th id on: delete_task is called
\* for each id in turn, on the table the calls before it left; the id goes to
\* 'successful' when the call returns True and to 'failed' when it returns
\* False.  delete_task catches every exception itself, so the handler of the
\* loop is never entered; nothing is ever put in 'not_found'.
delete_tasks_batch_from(KANBAN, sqlite_sequence, clock, task_ids, i, acc) ==
    IF i > Len(task_ids)
    THEN [ret |-> acc.results, out |-> acc.out, KANBAN |-> KANBAN,
          sqlite_sequence |-> sqlite_sequence, calls |-> acc.calls,
          invalidated |-> acc.calls # <<>>]
    ELSE LET r == delete_task(KANBAN, sqlite_sequence, clock, task_ids[i])
             results == IF r.ret
                        THEN [acc.results EXCEPT !.successful = Append(@, task_ids[i])]
                        ELSE [acc.results EXCEPT !.failed = Append(@, task_ids[i])]
         IN  delete_tasks_batch_from(r.KANBAN, r.sqlite_sequence, clock, task_ids, i + 1,
                                     [results |-> results, out |-> Append(acc.out, r.out),
                                      calls |-> acc.calls \o r.calls])

\* delete_tasks_batch: the dictionary of results, the lines printed, the table.
delete_tasks_batch(KANBAN, sqlite_sequence, clock, task_ids) ==
    delete_tasks_batch_from(KANBAN, sqlite_sequence, clock, task_ids, 1,
                            [results |-> [successful |-> <<>>, failed |-> <<>>, not_found |-> <<>>],
                             out |-> <<>>, calls |-> <<>>])

\* get_task: the task, or None when the id does not resolve or the row is malformed
get_task(KANBAN, clock, task_id) ==
    LET task_data == GetTaskByID(KANBAN, task_id) IN
    IF task_data = None THEN None
    ELSE LET t == from_database_row(task_data[1], clock)
         IN  IF t.exc # "" THEN None ELSE Some(t.task)

(***************************************************************************)
(* Arguments of the calls                                                  *)
(***************************************************************************)
UserIds == {0, 1, 2}

AddArgs(title, status, person_in_charge, due_date, creator, additional_info) ==
    [title |-> title, status |-> status, person_in_charge |-> person_in_charge,
     due_date |-> due_date, creator |-> creator, additional_info |-> additional_info]

AddBase == AddArgs(<<"b">>, "To-Do", 1, "2024-01-09", 1, "x")

\* One argument of the base call replaced at a time, and some calls that differ
\* from it in several arguments.
AddInputs ==
    {[AddBase EXCEPT !.title = t] : t \in {<<>>, <<" ">>, <<" ", "a">>, <<"a", " ">>}}
    \cup {[AddBase EXCEPT !.status = s] :
            s \in {"In Progress", "Waiting Review", "Finished", "Blocked", ""}}
    \cup {[AddBase EXCEPT !.person_in_charge = u] : u \in UserIds}
    \cup {[AddBase EXCEPT !.due_date = d] : d \in {"Undecided", "2024-13-45"}}
    \cup {[AddBase EXCEPT !.creator = u] : u \in UserIds}
    \cup {[AddBase EXCEPT !.additional_info = i] : i \in {""}}
    \cup {AddArgs(<<>>, "Blocked", 1, "2024-01-09", 1, "x"),
          AddArgs(<<" ">>, "To-Do", 2, "2024-01-09", 1, "x"),
          AddArgs(<<"b">>, "Blocked", 2, "2024-01-09", 2, "x"),
          AddArgs(<<"b">>, "To-Do", 2, "2024-01-09", 2, "x"),
          AddArgs(<<" ", "a", " ">>, "Finished", 2, "Undecided", 1, "")}

UpdateKeys == {"NewTitle", "NewStatus", "NewPersonInCharge", "NewDueDate", "NewAdditionalInfo"}

\* The keyword arguments of edit_task: keys holds the names passed, and each
\* name passed has its value (None or a value) in the field of that name.
NoUpdates ==
    [keys |-> {}, NewTitle |-> None, NewStatus |-> None, NewPersonInCharge |-> None,
     NewDueDate |-> None, NewAdditionalInfo |-> None]

With(updates, key, value) == [updates EXCEPT !.keys = @ \cup {key}, ![key] = value]

U(key, value) == With(NoUpdates, key, value)

UpdateInputs ==
    {NoUpdates, U("NewStatus", None), U("NewTitle", None)}
    \cup {U("NewStatus", Some(s)) : s \in {"", "To-Do", "In Progress", "Finished", "Blocked"}}
    \cup {U("NewTitle", Some(t)) : t \in {<<>>, <<" ">>, <<"a", " ">>, <<"b">>}}
    \cup {U("NewPersonInCharge", Some(u)) : u \in UserIds}
    \cup {U("NewDueDate", Some(d)) : d \in {"", "2024-01-20", "2024-02-30", "2024-13-45"}}
    \cup {U("NewAdditionalInfo", Some(i)) : i \in {"", "y"}}
    \cup {With(U("NewTitle", Some(<<"a">>)), "NewStatus", Some("Blocked")),
          With(U("NewAdditionalInfo", Some("y")), "NewStatus", Some("Blocked")),
          With(U("NewAdditionalInfo", Some("y")), "NewDueDate", Some("2024-13-45")),
          With(U("NewTitle", Some(<<"a">>)), "NewPersonInCharge", Some(0)),
          With(U("NewStatus", Some("Finished")), "NewTitle", Some(<<" ">>)),
          With(U("NewAdditionalInfo", Some("y")), "NewTitle", Some(<<>>)),
          With(With(With(With(U("NewTitle", Some(<<" ", "a">>)),
                              "NewStatus", Some("Waiting Review")),
                         "NewPersonInCharge", Some(2)),
                    "NewDueDate", Some("2024-01-20")),
               "NewAdditionalInfo", Some("y")),
          With(With(With(With(U("NewTitle", Some(<<" ", "a">>)),
                              "NewStatus", Some("Blocked")),
                         "NewPersonInCharge", Some(2)),
                    "NewDueDate", Some("2024-01-20")),
               "NewAdditionalInfo", Some("y"))}

\* The updates that are tried with every acting editor; the others are tried
\* with editor 1.
EditorUpdates == {NoUpdates, U("NewStatus", Some("In Progress")), U("NewStatus", Some("Blocked"))}

EditArgs(task_id, editor, updates) ==
    [task_id |-> task_id, editor |-> editor, updates |-> updates]

(***************************************************************************)
(* The board as a state machine                                            *)
(***************************************************************************)
Call(op, args, r) ==
    [op |-> op, args |-> args, ret |-> r.ret, out |-> r.out, calls |-> r.calls]

\* KanbanBoard.__init__ on a fresh database: InitDB has created the tables,
\* and user 1 has registered.
Init ==
    /\ users = {1}
    /\ kanban = <<>>
    /\ seq = 0
    /\ now = 0
    /\ tasks_cache = None
    /\ cache_dirty = TRUE
    /\ last = [op |-> "__init__", args |-> <<>>, ret |-> TRUE, out |-> "", calls |-> <<>>]
    /\ before = <<>>
    /\ issued = <<>>
    /\ sqlite_master = {"USER", "KANBAN"}
    /\ login = LoginStarted
    /\ main = MainInLogin
    /\ users_db = <<>>

Ids(KANBAN) == {KANBAN[i].ID : i \in 1..Len(KANBAN)}

\* The IDs of the rows of After that Before does not hold, in row order.
NewIds(Before, After) ==
    LET fresh == SelectSeq(After, LAMBDA r : r.ID \notin Ids(Before))
    IN  [i \in 1..Len(fresh) |-> fresh[i].ID]

Returned(op, args, r) ==
    /\ kanban' = r.KANBAN
    /\ issued' = issued \o NewIds(kanban, r.KANBAN)
    /\ seq' = r.sqlite_sequence
    /\ cache_dirty' = (cache_dirty \/ r.invalidated)
    /\ last' = Call(op, args, r)
    /\ before' = kanban
    /\ now' = now + 1
    /\ UNCHANGED <<users, tasks_cache, sqlite_master, login, main, users_db>>

\* Login.Login, choice 2: a phone number that is not yet in USER registers.
Register(PhoneNo) ==
    /\ now < MaxNow
    /\ ~CheckUserExist(users, PhoneNo)
    /\ users' = users \cup {PhoneNo}
    /\ last' = [op |-> "Register", args |-> PhoneNo, ret |-> TRUE, out |-> "", calls |-> <<>>]
    /\ before' = kanban
    /\ now' = now + 1
    /\ UNCHANGED <<kanban, seq, tasks_cache, cache_dirty, issued, sqlite_master, login, main, users_db>>

Add(a) ==
    /\ now < MaxNow
    /\ Returned("add_task", a,
                add_task(users, kanban, seq, now, a.title, a.status, a.person_in_charge,
                         a.due_date, a.creator, a.additional_info))

Edit(a) ==
    /\ now < MaxNow
    /\ Returned("edit_task", a,
                edit_task(users, kanban, seq, now, a.task_id, a.editor, a.updates))

Delete(task_id) ==
    /\ now < MaxNow
    /\ Returned("delete_task", task_id, delete_task(kanban, seq, now, task_id))

\* Every id the table has given so far, and one it has not given yet.
TaskIds == 1..(seq + 1)


(***************************************************************************)
(* Notification.py: the scan for overdue and upcoming tasks.               *)
(*   date                the ordinal number of the day (date.toordinal)    *)
(*   datetime            a date with hour, minute, second, microsecond     *)
(*   timedelta           days, seconds, microseconds, normalised           *)
(*   a value that is     the row holds its type name in DueDateType, next  *)
(*   not a str           to the text of the value in DueDate               *)
(***************************************************************************)
\* The look-ahead window, in days.
Due == 14

RECURSIVE DaysBeforeMonth(_, _)
DaysBeforeMonth(y, m) == IF m = 1 THEN 0 ELSE DaysBeforeMonth(y, m - 1) + DaysInMonth(y, m - 1)

\* date(y, m, d).toordinal(): day 1 is 0001-01-01.
toordinal(y, m, d) ==
    LET p == y - 1
    IN  p * 365 + (p \div 4) - (p \div 100) + (p \div 400) + DaysBeforeMonth(y, m) + d

datetime(year, month, day, hour, minute, second, microsecond) ==
    [date |-> toordinal(year, month, day), hour |-> hour, minute |-> minute,
     second |-> second, microsecond |-> microsecond]

\* timedelta(days, seconds, microseconds): 0 <= seconds < 86400 and
\* 0 <= microseconds < 1000000 in the value kept, the sign is in the days.
timedelta(days, seconds, microseconds) ==
    LET s == seconds + (microseconds \div 1000000)
    IN  [days |-> days + (s \div 86400), seconds |-> s % 86400,
         microseconds |-> microseconds % 1000000]

SecondOfDay(t) == t.hour * 3600 + t.minute * 60 + t.second

\* datetime + timedelta
datetime_add(t, d) ==
    LET n == timedelta(t.date + d.days, SecondOfDay(t) + d.seconds,
                       t.microsecond + d.microseconds)
    IN  [date |-> n.days, hour |-> n.seconds \div 3600, minute |-> (n.seconds % 3600) \div 60,
         second |-> n.seconds % 60, microsecond |-> n.microseconds]

\* datetime - datetime
datetime_sub(a, b) ==
    timedelta(a.date - b.date, SecondOfDay(a) - SecondOfDay(b), a.microsecond - b.microsecond)

\* Variant: the days are negated and the time of day is kept.
timedelta_neg_days_only(d) ==
    [days |-> -d.days, seconds |-> d.seconds, microseconds |-> d.microseconds]

\* -timedelta
timedelta_neg(d) == timedelta(-d.days, -d.seconds, -d.microseconds)

\* Variant: a gap of less than a day counts as negative.
timedelta_negative_within_a_day(d) == d.days <= 0

\* timedelta < timedelta(0)
timedelta_negative(d) == d.days < 0

\* isinstance(DueDateStr, str)
isinstance_str(Datum) == "DueDateType" \notin DOMAIN Datum

\* str.strip() of the due-date texts that the tables of the scan hold
str_strip(s) ==
    CASE s = " " -> ""
      [] s = " 2024-01-09 " -> "2024-01-09"
      [] OTHER -> s

\* datetime.strptime(s, "%Y-%m-%d"), for a text that strptime_ok accepts
strptime(s) ==
    LET f == DateFields(s) IN datetime(f[1], f[2], f[3], 0, 0, 0, 0)

\* kdb.GetUserByPhone: the row of USER with that phone number, or None.
GetUserByPhone(USER, PhoneNo) ==
    IF PhoneNo \in USER THEN Some([PhoneNo |-> PhoneNo]) ELSE None

Separator == [kind |-> "separator"]

\* Variant: the ValueError of strptime is not caught.
TryParse_uncaught(DueDateStr) ==
    IF strptime_ok(str_strip(DueDateStr))
    THEN [exc |-> "", skip |-> FALSE, DueDate_base |-> strptime(str_strip(DueDateStr))]
    ELSE [exc |-> "ValueError: time data does not match format '%Y-%m-%d'", skip |-> TRUE,
          DueDate_base |-> None]

\* try: strptime(...) except (ValueError, TypeError): continue
TryParse(DueDateStr) ==
    IF strptime_ok(str_strip(DueDateStr))
    THEN [exc |-> "", skip |-> FALSE, DueDate_base |-> strptime(str_strip(DueDateStr))]
    ELSE [exc |-> "", skip |-> TRUE, DueDate_base |-> None]

\* Variant: the last day of the window is left out.
InWindow_exclusive(DueDate, Now, Threshold) ==
    DueDate.date < Now.date \/ (Now.date <= DueDate.date /\ DueDate.date < Threshold.date)

\* The test that decides whether a task is notified.
InWindow(DueDate, Now, Threshold) ==
    DueDate.date < Now.date \/ (Now.date <= DueDate.date /\ DueDate.date <= Threshold.date)

\* The first line of a notification: overdue by, or due in, days, hours and
\* minutes.
DueMessage(DueDate_base, DueDate, Now) ==
    LET TimeLeft == datetime_sub(DueDate, Now) IN
    IF timedelta_negative(TimeLeft)
    THEN LET OverdueDelta == timedelta_neg(TimeLeft)
         IN  [label |-> "Task overdue by", Days |-> OverdueDelta.days,
              Hours |-> OverdueDelta.seconds \div 3600,
              Minutes |-> (OverdueDelta.seconds % 3600) \div 60]
    ELSE [label |-> "Task due in",
          Days |-> IF DueDate_base.date = Now.date THEN 0 ELSE TimeLeft.days,
          Hours |-> TimeLeft.seconds \div 3600,
          Minutes |-> (TimeLeft.seconds % 3600) \div 60]

\* The notification of one task: the lines of Message.
Message(USER, Datum, DueMessageLine) ==
    [kind |-> "task",
     DueMessage |-> DueMessageLine,
     TaskID |-> Datum.ID,
     Title |-> Datum.Title,
     Status |-> Datum.Status,
     PersonInCharge |-> GetUserByPhone(USER, Datum.PersonInCharge),
     CreationDate |-> Datum.CreationDate,
     DueDate |-> Datum.DueDate,
     Creator |-> GetUserByPhone(USER, Datum.Creator),
     Editor |-> IF Datum.Editors = None THEN None ELSE GetUserByPhone(USER, Datum.Editors[1]),
     AdditionalInfo |-> Datum.AdditionalInfo]

\* Variant: a row that names a user who is not in USER is passed over.
ScanDatum_of_known_users(USER, Datum, Now, Threshold) ==
    LET known(PhoneNo) == GetUserByPhone(USER, PhoneNo) # None
        p == TryParse(Datum.DueDate)
        DueDate == [p.DueDate_base EXCEPT !.hour = 23, !.minute = 59, !.second = 59,
                                          !.microsecond = 999999]
    IN  IF \/ ~isinstance_str(Datum) \/ str_strip(Datum.DueDate) = ""
           \/ ~known(Datum.PersonInCharge) \/ ~known(Datum.Creator)
           \/ Datum.Editors = None \/ ~known(Datum.Editors[1])
           \/ p.skip
           \/ ~InWindow(DueDate, Now, Threshold)
        THEN [exc |-> "", Notifications |-> <<>>]
        ELSE [exc |-> "",
              Notifications |->
                  <<Message(USER, Datum, DueMessage(p.DueDate_base, DueDate, Now)), Separator>>]

\* The body of the loop for one row: what it appends to Notifications, or the
\* exception that leaves the loop.
ScanDatum(USER, Datum, Now, Threshold) ==
    IF ~isinstance_str(Datum) \/ str_strip(Datum.DueDate) = ""
    THEN [exc |-> "", Notifications |-> <<>>]
    ELSE LET p == TryParse(Datum.DueDate) IN
         IF p.exc # "" THEN [exc |-> p.exc, Notifications |-> <<>>]
         ELSE IF p.skip THEN [exc |-> "", Notifications |-> <<>>]
         ELSE LET DueDate == [p.DueDate_base EXCEPT !.hour = 23, !.minute = 59,
                                                    !.second = 59, !.microsecond = 999999]
              IN  IF InWindow(DueDate, Now, Threshold)
                  THEN [exc |-> "",
                        Notifications |->
                            <<Message(USER, Datum, DueMessage(p.DueDate_base, DueDate, Now)),
                              Separator>>]
                  ELSE [exc |-> "", Notifications |-> <<>>]

RECURSIVE ScanData(_, _, _, _, _, _)
\* Variant: the entry of a row is put before the entries built so far.
ScanData_newest_first(USER, Data, Now, Threshold, i, Notifications) ==
    IF i > Len(Data) THEN [exc |-> "", Notifications |-> Notifications]
    ELSE LET r == ScanDatum(USER, Data[i], Now, Threshold) IN
         IF r.exc # "" THEN [exc |-> r.exc, Notifications |-> <<>>]
         ELSE ScanData(USER, Data, Now, Threshold, i + 1, r.Notifications \o Notifications)

\* for Datum in Data, from row i on, with the list built so far
ScanData(USER, Data, Now, Threshold, i, Notifications) ==
    IF i > Len(Data) THEN [exc |-> "", Notifications |-> Notifications]
    ELSE LET r == ScanDatum(USER, Data[i], Now, Threshold) IN
         IF r.exc # "" THEN [exc |-> r.exc, Notifications |-> <<>>]
         ELSE ScanData(USER, Data, Now, Threshold, i + 1, Notifications \o r.Notifications)

\* Variant: the rows are selected without asking whether the table exists.
UpcomingTask_no_table_check(tables, KANBAN, USER, Now) ==
    LET Threshold == datetime_add(Now, timedelta(Due, 0, 0)) IN
    IF "KANBAN" \notin tables
    THEN [exc |-> "sqlite3.OperationalError: no such table: KANBAN", Notifications |-> <<>>]
    ELSE ScanData(USER, KANBAN, Now, Threshold, 1, <<Separator>>)

\* Variant: the list starts empty, without the leading separator.
UpcomingTask_no_leading_separator(tables, KANBAN, USER, Now) ==
    LET Threshold == datetime_add(Now, timedelta(Due, 0, 0)) IN
    IF "KANBAN" \notin tables THEN [exc |-> "", Notifications |-> <<>>]
    ELSE ScanData(USER, KANBAN, Now, Threshold, 1, <<>>)

UpcomingTask(tables, KANBAN, USER, Now) ==
    LET Threshold == datetime_add(Now, timedelta(Due, 0, 0)) IN
    IF "KANBAN" \notin tables THEN [exc |-> "", Notifications |-> <<>>]
    ELSE ScanData(USER, KANBAN, Now, Threshold, 1, <<Separator>>)

\* The rows a table of the scan holds at most.
MaxRows == 2

\* The due dates found in kanban.db: dates, a date with blanks around it, the
\* empty text, a blank, the word the Add menu stores for no date, texts that
\* are no calendar date, and two values that are not text.  The file is read
\* as it is, whoever wrote it.
ScanCells ==
    {[type |-> "str", text |-> d] :
        d \in {"2024-01-09", "2024-01-10", " 2024-01-09 ", "", " ", "Undecided",
               "2024-13-45", "2024-02-30"}}
    \cup {[type |-> "NoneType", text |-> "None"], [type |-> "int", text |-> "20240109"]}

ScanRow(id, cell) ==
    LET row == [ID |-> id, Title |-> <<"b">>, Status |-> "To-Do", PersonInCharge |-> 1,
                CreationDate |-> isoformat(0), DueDate |-> cell.text, Creator |-> 1,
                Editors |-> None, AdditionalInfo |-> "x"]
    IN  IF cell.type = "str" THEN row ELSE row @@ [DueDateType |-> cell.type]

\* The users the rows name: user 1 is in USER and user 2 is not; the row of
\* ScanRow with another person in charge, another creator, or an editor.
ScanPeople ==
    {[PersonInCharge |-> 2, Creator |-> 1, Editors |-> None],
     [PersonInCharge |-> 1, Creator |-> 2, Editors |-> None],
     [PersonInCharge |-> 1, Creator |-> 1, Editors |-> Some(1)],
     [PersonInCharge |-> 1, Creator |-> 1, Editors |-> Some(2)]}

ScanRows(id) ==
    {ScanRow(id, cell) : cell \in ScanCells}
    \cup {[ScanRow(id, [type |-> "str", text |-> "2024-01-09"])
              EXCEPT !.PersonInCharge = who.PersonInCharge, !.Creator = who.Creator,
                     !.Editors = who.Editors] : who \in ScanPeople}

ScanTables ==
    UNION {{t \in [1..n -> UNION {ScanRows(i) : i \in 1..n}] : \A i \in 1..n : t[i].ID = i} : n \in 0..MaxRows}

\* The readings of the clock: days around the two due dates and the ends of
\* the window before them, each at the start, in the middle and at the last
\* microsecond of the day.
NowInputs ==
    {datetime(d[1], d[2], d[3], t[1], t[2], t[3], t[4]) :
        d \in {<<2023, 12, 25>>, <<2023, 12, 26>>, <<2024, 1, 9>>, <<2024, 1, 10>>,
               <<2025, 3, 1>>},
        t \in {<<0, 0, 0, 0>>, <<12, 30, 15, 500000>>, <<23, 59, 59, 999999>>}}

\* A database file as the scan may find it: new and without any table, without
\* the KANBAN table, or with a KANBAN table of up to MaxRows rows.
InitScan ==
    /\ sqlite_master \in {{}, {"USER"}, {"USER", "KANBAN"}}
    /\ users = (IF "USER" \in sqlite_master THEN {1} ELSE {})
    /\ kanban \in (IF "KANBAN" \in sqlite_master THEN ScanTables ELSE {<<>>})
    /\ seq = Len(kanban)
    /\ now = 0
    /\ tasks_cache = None
    /\ cache_dirty = TRUE
    /\ last = [op |-> "__init__", args |-> <<>>, ret |-> TRUE, out |-> "", calls |-> <<>>]
    /\ before = kanban
    /\ issued = [i \in 1..Len(kanban) |-> kanban[i].ID]
    /\ login = LoginStarted
    /\ main = MainInLogin
    /\ users_db = <<>>

\* Variant: the scan deletes the rows of the tasks it finds overdue.
Scan_purging_overdue(Now) ==
    LET r == UpcomingTask(sqlite_master, kanban, users, Now)
        overdue == {r.Notifications[k].TaskID : k \in {j \in 1..Len(r.Notifications) : r.Notifications[j].kind = "task" /\ r.Notifications[j].DueMessage.label = "Task overdue by"}}
    IN
    /\ last' = [op |-> "UpcomingTask", args |-> [Now |-> Now], ret |-> r.Notifications,
                out |-> r.exc, calls |-> <<>>]
    /\ before' = kanban
    /\ kanban' = SelectSeq(kanban, LAMBDA row : row.ID \notin overdue)
    /\ UNCHANGED <<users, seq, now, tasks_cache, cache_dirty, issued, sqlite_master, login, main, users_db>>

\* Notification.UpcomingTask(): Now is the reading of datetime.now().
Scan(Now) ==
    LET r == UpcomingTask(sqlite_master, kanban, users, Now) IN
    /\ last' = [op |-> "UpcomingTask", args |-> [Now |-> Now], ret |-> r.Notifications,
                out |-> r.exc, calls |-> <<>>]
    /\ before' = kanban
    /\ UNCHANGED <<users, kanban, seq, now, tasks_cache, cache_dirty, issued, sqlite_master, login, main, users_db>>

NextScan == \E Now \in NowInputs : Scan(Now)

SpecScan == InitScan /\ [][NextScan]_vars

\* The calls made on a session's board.
Next ==
    \/ \E u \in UserIds : Register(u)
    \/ \E a \in AddInputs : Add(a)
    \/ \E i \in TaskIds, u \in UpdateInputs : Edit(EditArgs(i, 1, u))
    \/ \E i \in TaskIds, e \in UserIds, u \in EditorUpdates : Edit(EditArgs(i, e, u))
    \/ \E i \in TaskIds : Delete(i)

Spec == Init /\ [][Next]_vars

\* The readings of the clock at which a session's scan is followed: one on a
\* due date of the tasks the calls add, one long after it.
SessionNowInputs ==
    {datetime(2024, 1, 9, 12, 30, 15, 500000), datetime(2025, 3, 1, 0, 0, 0, 0)}

\* A session on the board with the scan of Notification.py between its calls,
\* as Login runs it when a user logs in: tasks with and without a due date
\* that reads as a date are added, edited and deleted.
NextSession ==
    \/ \E d \in {"2024-01-09", "Undecided"} : Add([AddBase EXCEPT !.due_date = d])
    \/ \E i \in TaskIds, u \in EditorUpdates : Edit(EditArgs(i, 1, u))
    \/ \E i \in TaskIds : Delete(i)
    \/ \E Now \in SessionNowInputs : Scan(Now)

SpecSession == Init /\ [][NextSession]_vars

(***************************************************************************)
(* Login.py: the login loop.  Each choice handled is kept in login.trace   *)
(* with the functions the handler called, in the order of the calls.       *)
(***************************************************************************)
\* The choices one run of the loop handles at most.
MaxLogins == 3

\* The accounts of the runs followed: an administrator, a user, and a user
\* whose account has not been activated.
Accounts ==
    {[PhoneNo |-> 1, Position |-> "Admin", IsActive |-> 1, Password |-> "secret-1"],
     [PhoneNo |-> 2, Position |-> "User", IsActive |-> 1, Password |-> "secret-2"],
     [PhoneNo |-> 3, Position |-> "User", IsActive |-> 0, Password |-> "secret-3"]}

\* Database.ValidateLogin: the account for a phone number and its password,
\* "Not activated" for an account that is not active, nothing otherwise.
ValidateLogin(USER, PhoneNo, Password) ==
    LET found == {a \in USER : a.PhoneNo = PhoneNo /\ a.Password = Password} IN
    IF found = {} THEN [kind |-> "None"]
    ELSE LET a == CHOOSE a \in found : TRUE
         IN  IF a.IsActive = 0 THEN [kind |-> "Not activated"]
             ELSE [kind |-> "User", Position |-> a.Position]

Handled(entry) == [login EXCEPT !.trace = Append(@, entry)]

\* Notification.PrintNotification(): the scan, whose entries it prints.
PrintNotification(Now) ==
    LET r == UpcomingTask(sqlite_master, kanban, users, Now) IN
    /\ last' = [op |-> "UpcomingTask", args |-> [Now |-> Now], ret |-> r.Notifications,
                out |-> r.exc, calls |-> <<>>]
    /\ before' = kanban
    /\ UNCHANGED <<users, kanban, seq, now, tasks_cache, cache_dirty, issued, sqlite_master, main, users_db>>

\* choice "1" with a phone number that int() accepts: the login, the scan that
\* PrintNotification runs while printnoti holds, and the menu of the user.
Login_choice_1(PhoneNo, Password, Now) ==
    LET User == ValidateLogin(Accounts, PhoneNo, Password)
        menu == IF User.kind = "User" /\ User.Position = "Admin"
                THEN "InteractiveMenuAdmin" ELSE "interactive_menu"
    IN
    /\ login.running
    /\ Len(login.trace) < MaxLogins
    /\ IF User.kind = "User" /\ login.printnoti
       THEN /\ PrintNotification(Now)
            /\ login' = [Handled([choice |-> "1", PhoneNo |-> PhoneNo,
                                  outcome |-> User.Position,
                                  calls |-> <<"PrintNotification", menu>>])
                           EXCEPT !.printnoti = FALSE]
       ELSE /\ login' = Handled([choice |-> "1", PhoneNo |-> PhoneNo,
                                  outcome |-> IF User.kind = "User" THEN User.Position
                                              ELSE IF User.kind = "Not activated"
                                              THEN "Account inactive"
                                              ELSE "Invalid phone number or password",
                                  calls |-> IF User.kind = "User" THEN <<menu>> ELSE <<>>])
            /\ UNCHANGED <<users, kanban, seq, now, tasks_cache, cache_dirty, last, before,
                           issued, sqlite_master, main, users_db>>

\* choice "1" with a phone number that int() rejects
Login_choice_1_no_number ==
    /\ login.running
    /\ Len(login.trace) < MaxLogins
    /\ login' = Handled([choice |-> "1", outcome |-> "Please enter a valid phone number",
                         calls |-> <<>>])
    /\ UNCHANGED <<users, kanban, seq, now, tasks_cache, cache_dirty, last, before, issued,
                   sqlite_master, main, users_db>>

\* choice "h", and any choice that is not on the menu: a text is printed
Login_choice_other(choice) ==
    /\ login.running
    /\ Len(login.trace) < MaxLogins
    /\ login' = Handled([choice |-> choice, outcome |-> "printed", calls |-> <<>>])
    /\ UNCHANGED <<users, kanban, seq, now, tasks_cache, cache_dirty, last, before, issued,
                   sqlite_master, main, users_db>>

\* choice "0": Login returns
Login_choice_0 ==
    /\ login.running
    /\ login' = [Handled([choice |-> "0", outcome |-> "return", calls |-> <<>>])
                    EXCEPT !.running = FALSE]
    /\ UNCHANGED <<users, kanban, seq, now, tasks_cache, cache_dirty, last, before, issued,
                   sqlite_master, main, users_db>>

\* Login() on a database that holds one task; the registration of choice "2"
\* is not followed here, the accounts are those of Accounts throughout.
InitLogin ==
    /\ users = {1}
    /\ sqlite_master = {"USER", "KANBAN"}
    /\ kanban = <<ScanRow(1, [type |-> "str", text |-> "2024-01-09"])>>
    /\ seq = 1
    /\ issued = <<1>>
    /\ now = 0
    /\ tasks_cache = None
    /\ cache_dirty = TRUE
    /\ last = [op |-> "__init__", args |-> <<>>, ret |-> TRUE, out |-> "", calls |-> <<>>]
    /\ before = kanban
    /\ login = LoginStarted
    /\ main = MainInLogin
    /\ users_db = <<>>

NextLogin ==
    \/ \E p \in {1, 2, 3, 4}, w \in {"secret-1", "secret-2", "secret-3"}, Now \in SessionNowInputs : Login_choice_1(p, w, Now)
    \/ Login_choice_1_no_number
    \/ \E c \in {"h", "9"} : Login_choice_other(c)
    \/ Login_choice_0

SpecLogin == InitLogin /\ [][NextLogin]_vars

(***************************************************************************)
(* KanbanBoard: reading the whole table, and the board it displays         *)
(***************************************************************************)
\* The characters of a text, and ord() of a character, for the texts that the
\* rows followed hold as due dates and titles.
Chars(s) ==
    CASE s = "" -> <<>>
      [] s = "Undecided" -> <<"U", "n", "d", "e", "c", "i", "d", "e", "d">>
      [] s = "2024-01-09" -> <<"2", "0", "2", "4", "-", "0", "1", "-", "0", "9">>
      [] s = "2024-01-10" -> <<"2", "0", "2", "4", "-", "0", "1", "-", "1", "0">>

ord(c) ==
    CASE c = " " -> 32 [] c = "-" -> 45
      [] c = "0" -> 48 [] c = "1" -> 49 [] c = "2" -> 50 [] c = "4" -> 52 [] c = "9" -> 57
      [] c = "B" -> 66 [] c = "U" -> 85
      [] c = "a" -> 97 [] c = "b" -> 98 [] c = "c" -> 99 [] c = "d" -> 100
      [] c = "e" -> 101 [] c = "i" -> 105 [] c = "n" -> 110

\* str.lower(), on a text given by its characters
lower(t) == [i \in 1..Len(t) |-> IF t[i] = "B" THEN "b" ELSE IF t[i] = "U" THEN "u" ELSE t[i]]

\* The code points of a text given by its characters.
code_points(t) == [i \in 1..Len(t) |-> ord(t[i])]

\* a < b for two str, given by their code points: the first code point that
\* differs decides, and a proper prefix is the smaller.
RECURSIVE str_lt(_, _)
str_lt(a, b) ==
    IF b = <<>> THEN FALSE
    ELSE IF a = <<>> THEN TRUE
    ELSE IF a[1] # b[1] THEN a[1] < b[1]
    ELSE str_lt(Tail(a), Tail(b))

\* a < b for two tuples of str: the first component that differs decides.
RECURSIVE tuple_lt(_, _)
tuple_lt(a, b) ==
    IF b = <<>> THEN FALSE
    ELSE IF a = <<>> THEN TRUE
    ELSE IF a[1] # b[1] THEN str_lt(a[1], b[1])
    ELSE tuple_lt(Tail(a), Tail(b))

\* sorted(tasks, key=...): keys holds the key of each task, a tuple of str; the
\* sort is stable, so tasks of equal keys keep the order they came in.
sorted(tasks, keys) ==
    LET n == Len(tasks)
        p == CHOOSE p \in [1..n -> 1..n] :
                /\ \A i, j \in 1..n : i # j => p[i] # p[j]
                /\ \A i, j \in 1..n : i < j =>
                      \/ tuple_lt(keys[p[i]], keys[p[j]])
                      \/ (keys[p[i]] = keys[p[j]] /\ p[i] < p[j])
    IN  [i \in 1..n |-> tasks[p[i]]]

\* The name the board shows for a user; the users of the runs followed are
\* named by one letter each.
_get_user_name(PhoneNo) == IF PhoneNo = 1 THEN <<"b">> ELSE <<"a">>

\* The exceptions that "except (ValueError, IndexError)" does not catch.
TypeErrors == {"TypeError: Creation date must be datetime, ISO string, or None"}

RECURSIVE ReadRows(_, _, _, _, _)
\* Variant: the loop catches nothing, so that any malformed row ends the read.
ReadRows_catching_nothing(tasks_data, clock, i, tasks, skipped) ==
    LET all == [k \in 1..Len(tasks_data) |-> from_database_row(tasks_data[k], clock)]
        bad == {k \in 1..Len(tasks_data) : all[k].exc # ""}
    IN  IF bad = {}
        THEN [exc |-> "", tasks |-> [k \in 1..Len(all) |-> all[k].task], skipped |-> 0]
        ELSE [exc |-> all[CHOOSE k \in bad : \A m \in bad : k <= m].exc, tasks |-> <<>>,
              skipped |-> 0]

\* The loop of get_all_tasks over the rows, from row i on: the tasks built, the
\* number of rows skipped with a warning, and the exception that ended the
\* loop, if one did.
ReadRows(tasks_data, clock, i, tasks, skipped) ==
    IF i > Len(tasks_data) THEN [exc |-> "", tasks |-> tasks, skipped |-> skipped]
    ELSE LET t == from_database_row(tasks_data[i], clock) IN
         IF t.exc = "" THEN ReadRows(tasks_data, clock, i + 1, Append(tasks, t.task), skipped)
         ELSE IF t.exc \notin TypeErrors
         THEN ReadRows(tasks_data, clock, i + 1, tasks, skipped + 1)
         ELSE [exc |-> t.exc, tasks |-> tasks, skipped |-> skipped]

\* get_all_tasks: the list returned, what is printed, and the cache afterwards.
get_all_tasks(KANBAN, cache, dirty, clock, force_refresh) ==
    IF ~force_refresh /\ ~dirty /\ cache # None
    THEN [ret |-> cache[1], out |-> "", tasks_cache |-> cache, cache_dirty |-> dirty,
          calls |-> <<>>]
    ELSE LET r == ReadRows(KANBAN, clock, 1, <<>>, 0) IN
         IF r.exc # ""
         THEN [ret |-> <<>>, out |-> "Error retrieving tasks", tasks_cache |-> cache,
               cache_dirty |-> dirty, calls |-> <<"GetAllTasks">>]
         ELSE [ret |-> r.tasks,
               out |-> IF r.skipped > 0 THEN "Warning: Skipping invalid task data" ELSE "",
               tasks_cache |-> Some(r.tasks), cache_dirty |-> FALSE,
               calls |-> <<"GetAllTasks">>]

\* Variant: the tasks are shown in the order of the rows.
_sort_tasks_as_stored(tasks, sort_by) == tasks

_sort_tasks(tasks, sort_by) ==
    LET due_date(x) == code_points(Chars(x.due_date))
        key(x) ==
            IF sort_by = "due_date" THEN <<due_date(x), code_points(x.title)>>
            ELSE IF sort_by = "title" THEN <<code_points(lower(x.title))>>
            ELSE IF sort_by = "assignee"
            THEN <<code_points(_get_user_name(x.person_in_charge)), due_date(x)>>
            ELSE <<due_date(x)>>
    IN  sorted(tasks, [i \in 1..Len(tasks) |-> key(tasks[i])])

\* The dictionary grouped_tasks, as the sequence of its items: one list for
\* each valid status, in the order of valid_statuses, and after them the list
\* "Invalid" when a task has another status.
grouped_tasks(statuses, tasks) ==
    LET of(status) == SelectSeq(tasks, LAMBDA task : task.status = status)
        valid == [i \in 1..Len(statuses) |-> [status |-> statuses[i], tasks |-> of(statuses[i])]]
        others == SelectSeq(tasks, LAMBDA task : task.status \notin Range(statuses))
    IN  IF others = <<>> THEN valid
        ELSE Append(valid, [status |-> "Invalid", tasks |-> others])

\* Variant: the lists are shown in the alphabetical order of the statuses.
_display_grouped_by_status_alphabetically(tasks) ==
    LET g == grouped_tasks(get_valid_statuses, tasks) IN <<g[4], g[2], g[1], g[3]>>

\* _display_grouped_by_status: the lists shown, one for each valid status, in
\* the order of the enumeration.
_display_grouped_by_status(tasks) ==
    LET g == grouped_tasks(get_valid_statuses, tasks) IN
    SelectSeq(g, LAMBDA bucket : bucket.status \in Range(get_valid_statuses))

\* _display_flat_list: one list of all the tasks
_display_flat_list(tasks) == <<[status |-> "", tasks |-> tasks]>>

\* display_board: the list read, the lists shown, and the cache afterwards.
display_board(KANBAN, cache, dirty, clock, group_by_status, sort_by) ==
    LET listed == get_all_tasks(KANBAN, cache, dirty, clock, FALSE)
        tasks == listed.ret
        sorted_tasks == _sort_tasks(tasks, sort_by)
    IN  [listed EXCEPT !.ret = IF tasks = <<>> THEN <<>>
                               ELSE IF group_by_status
                               THEN _display_grouped_by_status(sorted_tasks)
                               ELSE _display_flat_list(sorted_tasks),
                       !.out = IF tasks = <<>> THEN "No tasks found in the system"
                               ELSE "KANBAN BOARD"]
        @@ [tasks |-> tasks]

\* What a read of the board leaves behind.
Read(op, args, r) ==
    /\ tasks_cache' = r.tasks_cache
    /\ cache_dirty' = r.cache_dirty
    /\ last' = [op |-> op, args |-> args, ret |-> r.ret, out |-> r.out, calls |-> r.calls,
                tasks |-> IF "tasks" \in DOMAIN r THEN r.tasks ELSE r.ret]
    /\ before' = kanban
    /\ UNCHANGED <<users, kanban, seq, now, issued, sqlite_master, login, main, users_db>>

List(force_refresh) ==
    Read("get_all_tasks", [force_refresh |-> force_refresh],
         get_all_tasks(kanban, tasks_cache, cache_dirty, now, force_refresh))

Display(group_by_status, sort_by) ==
    Read("display_board", [group_by_status |-> group_by_status, sort_by |-> sort_by],
         display_board(kanban, tasks_cache, cache_dirty, now, group_by_status, sort_by))

\* The rows of the tables read: a row as add_task writes it, the same row with
\* another status, due date or title, and the same row malformed in one way:
\* a column short, a status outside the enumeration, an empty title, a phone
\* number that is no int, a creation date that is no ISO text, and a creation
\* date that is no text.
ListRow(id) ==
    [ID |-> id, Title |-> <<"b">>, Status |-> "To-Do", PersonInCharge |-> 1,
     CreationDate |-> isoformat(0), DueDate |-> "2024-01-09", Creator |-> 1,
     Editors |-> None, AdditionalInfo |-> "x"]

ListRows(id) ==
    {ListRow(id)}
    \cup {[ListRow(id) EXCEPT !.Status = s] : s \in {"In Progress", "Waiting Review", "Finished", "Blocked"}}
    \cup {[ListRow(id) EXCEPT !.DueDate = d] : d \in {"", "Undecided", "2024-01-10"}}
    \cup {[ListRow(id) EXCEPT !.Title = t] : t \in {<<"a">>, <<>>}}
    \cup {[ListRow(id) EXCEPT !.PersonInCharge = NotAnInt]}
    \cup {[ListRow(id) EXCEPT !.CreationDate = c] : c \in {[text |-> "yesterday"], [type |-> "bytes"]}}
    \cup {[c \in DOMAIN ListRow(id) \ {"AdditionalInfo"} |-> ListRow(id)[c]]}

ListTables ==
    UNION {{t \in [1..n -> UNION {ListRows(i) : i \in 1..n}] : \A i \in 1..n : t[i].ID = i} : n \in 0..MaxRows}

InitList ==
    /\ users = {1}
    /\ sqlite_master = {"USER", "KANBAN"}
    /\ kanban \in ListTables
    /\ seq = Len(kanban)
    /\ issued = [i \in 1..Len(kanban) |-> i]
    /\ now = 0
    /\ tasks_cache = None
    /\ cache_dirty = TRUE
    /\ last = [op |-> "__init__", args |-> <<>>, ret |-> TRUE, out |-> "", calls |-> <<>>]
    /\ before = kanban
    /\ login = LoginStarted
    /\ main = MainInLogin
    /\ users_db = <<>>

NextList ==
    \/ \E force_refresh \in BOOLEAN : List(force_refresh)
    \/ \E group_by_status \in BOOLEAN, sort_by \in {"due_date", "title", "assignee", "status"} : Display(group_by_status, sort_by)

SpecList == InitList /\ [][NextList]_vars

(***************************************************************************)
(* Kanban.py and MyKanban/License.py: the license gate before the login    *)
(***************************************************************************)
Trial == 3

\* str.strip() of the keys typed and of the lines of the license file
key_strip(s) ==
    CASE s = " 0000-1111-2222-3333 " -> "0000-1111-2222-3333"
      [] s = " " -> ""
      [] OTHER -> s

\* LoadLicenseKeys: None without a license file; otherwise its lines, stripped,
\* without the empty lines and the lines that start with "#".
LoadLicenseKeys(LICENSE_FILE) ==
    IF LICENSE_FILE = None THEN None
    ELSE LET stripped == [i \in 1..Len(LICENSE_FILE[1]) |-> key_strip(LICENSE_FILE[1][i])]
         IN  Some(SelectSeq(stripped, LAMBDA s : s # "" /\ s # "# keys"))

\* Variant: every key is taken for a key of the file.
ValidateLicense_taking_any_key(LICENSE_FILE, key) ==
    [exc |-> "", ret |-> TRUE]

\* ValidateLicense: "key in keys", which raises TypeError when keys is None.
ValidateLicense(LICENSE_FILE, key) ==
    LET keys == LoadLicenseKeys(LICENSE_FILE) IN
    IF keys = None
    THEN [exc |-> "TypeError: argument of type 'NoneType' is not iterable", ret |-> FALSE]
    ELSE [exc |-> "", ret |-> key \in Range(keys[1])]

\* One pass of the loop of LicenseInput with a key typed, and what follows it
\* in LicenseInput and in main when the pass is the last: the key is valid and
\* Login.Login() is entered, the key is invalid and the loop goes on or, after
\* Trial keys, main prints that there is no access and returns, or
\* ValidateLicense raises and the exception leaves main.
LicenseInput_key(typed) ==
    LET v == ValidateLicense(main.LICENSE_FILE, key_strip(typed))
        entered == [main EXCEPT !.keys = Append(@, typed)]
    IN
    /\ main.pc = "LicenseInput"
    /\ main' = IF v.exc # "" THEN [entered EXCEPT !.pc = "raised"]
               ELSE IF v.ret
               THEN [entered EXCEPT !.pc = "Login", !.printed = Append(@, "License verified.")]
               ELSE IF Len(entered.keys) < Trial
               THEN [entered EXCEPT !.printed = Append(@, "Invalid license key. Please try again.")]
               ELSE [entered EXCEPT !.pc = "returned",
                                    !.printed = @ \o <<"Invalid license key. Please try again.",
                                                       "License verification failed.",
                                                       "You have no access to this system.">>]
    /\ UNCHANGED <<users, kanban, seq, now, tasks_cache, cache_dirty, last, before, issued, sqlite_master, login, users_db>>

\* input() raises EOFError: LicenseInput returns "", which main takes for False.
LicenseInput_EOFError ==
    /\ main.pc = "LicenseInput"
    /\ main' = [main EXCEPT !.pc = "returned",
                            !.printed = Append(@, "You have no access to this system.")]
    /\ UNCHANGED <<users, kanban, seq, now, tasks_cache, cache_dirty, last, before, issued, sqlite_master, login, users_db>>

\* The license files of the runs followed: none, a file without keys, and a
\* file with a comment, a key and an empty line.
LicenseFiles == {None, Some(<<>>), Some(<<"# keys", "0000-1111-2222-3333", " ">>)}

KeysTyped == {"0000-1111-2222-3333", " 0000-1111-2222-3333 ", "invalid-key-1", ""}

\* main() is called: the license gate first, the login loop of Login.Login()
\* once the gate is passed.
InitLicense ==
    /\ users = {1}
    /\ kanban = <<>>
    /\ seq = 0
    /\ now = 0
    /\ tasks_cache = None
    /\ cache_dirty = TRUE
    /\ last = [op |-> "__init__", args |-> <<>>, ret |-> TRUE, out |-> "", calls |-> <<>>]
    /\ before = <<>>
    /\ issued = <<>>
    /\ sqlite_master = {"USER", "KANBAN"}
    /\ login = LoginStarted
    /\ users_db = <<>>
    /\ main \in {[pc |-> "LicenseInput", LICENSE_FILE |-> f, keys |-> <<>>, printed |-> <<>>] : f \in LicenseFiles}

NextLicense ==
    \/ \E typed \in KeysTyped : LicenseInput_key(typed)
    \/ LicenseInput_EOFError
    \/ main.pc = "Login" /\ Login_choice_1_no_number
    \/ main.pc = "Login" /\ \E c \in {"h", "9"} : Login_choice_other(c)
    \/ main.pc = "Login" /\ Login_choice_0

SpecLicense == InitLicense /\ [][NextLicense]_vars

(***************************************************************************)
(* Database.py: the USER table of users.db                                 *)
(***************************************************************************)
\* CreateUser: INSERT INTO USER (PhoneNo, Name, Position); PhoneNo is UNIQUE,
\* and IsActive, which the statement does not name, takes its DEFAULT 1.
CreateUser(USER, PhoneNo, Name, Position) ==
    IF \E i \in 1..Len(USER) : USER[i].PhoneNo = PhoneNo
    THEN [exc |-> "ValueError: Phone number already exists", USER |-> USER]
    ELSE [exc |-> "",
          USER |-> Append(USER, [ID |-> Len(USER) + 1, PhoneNo |-> PhoneNo, Name |-> Name,
                                 IsActive |-> 1, Position |-> Position])]

\* Database.GetUserByPhone: fetchone() of the rows with that phone number
Database_GetUserByPhone(USER, PhoneNo) ==
    LET hit == SelectSeq(USER, LAMBDA r : r.PhoneNo = PhoneNo)
    IN  IF hit = <<>> THEN None ELSE Some(hit[1])

\* A call of CreateUser, followed by the GetUserByPhone that shows the account.
CreateUserCall(PhoneNo, Name, Position) ==
    LET r == CreateUser(users_db, PhoneNo, Name, Position) IN
    /\ users_db' = r.USER
    /\ last' = [op |-> "CreateUser",
                args |-> [PhoneNo |-> PhoneNo, Name |-> Name, Position |-> Position],
                ret |-> Database_GetUserByPhone(r.USER, PhoneNo), out |-> r.exc, calls |-> <<>>]
    /\ UNCHANGED <<users, kanban, seq, now, tasks_cache, cache_dirty, before, issued, sqlite_master, login, main>>

\* InitDB() on a new users.db, then users are created.
InitUsers ==
    /\ users = {1}
    /\ kanban = <<>>
    /\ seq = 0
    /\ now = 0
    /\ tasks_cache = None
    /\ cache_dirty = TRUE
    /\ last = [op |-> "__init__", args |-> <<>>, ret |-> TRUE, out |-> "", calls |-> <<>>]
    /\ before = <<>>
    /\ issued = <<>>
    /\ sqlite_master = {"USER", "KANBAN"}
    /\ login = LoginStarted
    /\ main = MainInLogin
    /\ users_db = <<>>

NextUsers ==
    \E PhoneNo \in {12345678, 87654321, 33333333}, Name \in {"John Doe", "Admin User"}, Position \in {"Admin", "User", "Developer"} : CreateUserCall(PhoneNo, Name, Position)

SpecUsers == InitUsers /\ [][NextUsers]_vars

(***************************************************************************)
(* CLI.py: the status prompt of the Add menu, and TaskStatus.from_number   *)
(***************************************************************************)
\* The prompts of one pass through the Add menu that are followed at most.
MaxPrompts == 3

\* What is typed at the prompt: the four codes, a code with blanks around it,
\* with a sign and with a leading zero, numbers that are no code, texts that
\* are no number, and nothing.
StatusTyped == {"1", "2", "3", "4", " 2 ", "+3", "04", "0", "5", "-1", "1.0", "abc", "", " "}

\* str.strip() of what is typed at the prompt
typed_strip(s) == CASE s = " 2 " -> "2" [] s = " " -> "" [] OTHER -> s

\* int(text): the number, or ValueError
int_of_str(s) ==
    CASE s = "1" -> [exc |-> "", value |-> 1]
      [] s = "2" -> [exc |-> "", value |-> 2]
      [] s = "3" -> [exc |-> "", value |-> 3]
      [] s = "4" -> [exc |-> "", value |-> 4]
      [] s = "+3" -> [exc |-> "", value |-> 3]
      [] s = "04" -> [exc |-> "", value |-> 4]
      [] s = "0" -> [exc |-> "", value |-> 0]
      [] s = "5" -> [exc |-> "", value |-> 5]
      [] s = "-1" -> [exc |-> "", value |-> -1]
      [] OTHER -> [exc |-> "ValueError: invalid literal for int() with base 10", value |-> 0]

\* TaskStatus.from_number: status_map.get(status_num).  The argument is
\* [int |-> n] for the int n and [str |-> s] for the text s, which is no key
\* of status_map.
from_number(status_num) ==
    IF "int" \in DOMAIN status_num /\ status_num.int \in 1..4
    THEN Some(CASE status_num.int = 1 -> "To-Do"
                [] status_num.int = 2 -> "In Progress"
                [] status_num.int = 3 -> "Waiting Review"
                [] status_num.int = 4 -> "Finished")
    ELSE None

\* Variant: every number above 3 is taken for Finished.
StatusPrompt_lenient(menu, typed) ==
    LET StatusInput == typed_strip(typed)
        n == int_of_str(StatusInput)
        again(line) == [Status |-> None, printed |-> line, asking |-> TRUE]
        break(Status) == [Status |-> Status, printed |-> "", asking |-> FALSE]
    IN  IF StatusInput = ""
        THEN IF menu = "Add" THEN again("Status cannot be empty.") ELSE break(None)
        ELSE IF n.exc # "" THEN again("Please enter a valid number.")
        ELSE IF n.value = 1 THEN break(Some("To-Do"))
        ELSE IF n.value = 2 THEN break(Some("In Progress"))
        ELSE IF n.value = 3 THEN break(Some("Waiting Review"))
        ELSE IF n.value >= 4 THEN break(Some("Finished"))
        ELSE again("Status is not valid")

\* One pass of the loop "while True" at the status prompt of the Add, Move or
\* Edit menu: the loop is left with a status, or, in the Move and Edit menus,
\* with None when nothing was typed; otherwise a line is printed and the
\* prompt is shown again.
StatusPrompt(menu, typed) ==
    LET StatusInput == typed_strip(typed)
        n == int_of_str(StatusInput)
        again(line) == [Status |-> None, printed |-> line, asking |-> TRUE]
        break(Status) == [Status |-> Status, printed |-> "", asking |-> FALSE]
    IN  IF StatusInput = ""
        THEN IF menu = "Add" THEN again("Status cannot be empty.") ELSE break(None)
        ELSE IF n.exc # "" THEN again("Please enter a valid number.")
        ELSE IF n.value = 1 THEN break(Some("To-Do"))
        ELSE IF n.value = 2 THEN break(Some("In Progress"))
        ELSE IF n.value = 3 THEN break(Some("Waiting Review"))
        ELSE IF n.value = 4 THEN break(Some("Finished"))
        ELSE again("Status is not valid")

\* A menu asks for the status, once more after every text it does not leave
\* the loop with: the texts typed at the prompt so far, the lines printed, and
\* what the loop is left with.  The board is not called while the menu asks.
AskStatus(menu, typed) ==
    LET asking == last.op = "interactive_menu: New status" /\ last.asking
        read == IF asking THEN last.args.typed ELSE <<>>
        printed == IF asking THEN last.out ELSE <<>>
        p == StatusPrompt(menu, typed)
    IN
    /\ asking => menu = last.args.menu
    /\ Len(read) < MaxPrompts
    /\ last' = [op |-> "interactive_menu: New status",
                args |-> [menu |-> menu, typed |-> Append(read, typed)],
                ret |-> p.Status,
                out |-> IF p.asking THEN Append(printed, p.printed) ELSE printed,
                calls |-> <<>>,
                asking |-> p.asking]
    /\ before' = kanban
    /\ UNCHANGED <<users, kanban, seq, now, tasks_cache, cache_dirty, issued, sqlite_master, login, main, users_db>>

NextAddMenu == \E menu \in {"Add", "Move", "Edit"}, typed \in StatusTyped : AskStatus(menu, typed)

SpecAddMenu == Init /\ [][NextAddMenu]_vars

(***************************************************************************)
(* One board over a table that holds rows already: writes and reads mixed. *)
(***************************************************************************)
\* The rows the table may hold when the board is made: a row as add_task
\* writes it, the row a column short, and the row with a creation date that
\* is no text.
CacheRows(id) ==
    {ListRow(id),
     [c \in DOMAIN ListRow(id) \ {"AdditionalInfo"} |-> ListRow(id)[c]],
     [ListRow(id) EXCEPT !.CreationDate = [type |-> "bytes"]]}

CacheTables ==
    UNION {{t \in [1..n -> UNION {CacheRows(i) : i \in 1..n}] : \A i \in 1..n : t[i].ID = i} : n \in 0..MaxRows}

\* KanbanBoard.__init__ over such a table: nothing cached, the cache dirty.
InitCache ==
    /\ users = {1}
    /\ sqlite_master = {"USER", "KANBAN"}
    /\ kanban \in CacheTables
    /\ seq = Len(kanban)
    /\ issued = [i \in 1..Len(kanban) |-> i]
    /\ now = 0
    /\ tasks_cache = None
    /\ cache_dirty = TRUE
    /\ last = [op |-> "__init__", args |-> <<>>, ret |-> TRUE, out |-> "", calls |-> <<>>]
    /\ before = kanban
    /\ login = LoginStarted
    /\ main = MainInLogin
    /\ users_db = <<>>

\* The ids a batch lists at most.
MaxBatch == 2

RECURSIVE ListsOfIds(_)
\* The lists of at most n ids, of the ids the table has given and one it has
\* not; an id may stand in a list twice.
ListsOfIds(n) ==
    IF n = 0 THEN {<<>>}
    ELSE ListsOfIds(n - 1) \cup {Append(l, i) : l \in ListsOfIds(n - 1), i \in TaskIds}

\* The lists of ids handed to delete_tasks_batch.
BatchInputs == ListsOfIds(MaxBatch)

DeleteBatch(task_ids) ==
    /\ now < MaxNow
    /\ Returned("delete_tasks_batch", task_ids, delete_tasks_batch(kanban, seq, now, task_ids))

\* add_task, edit_task, delete_task, delete_tasks_batch and get_all_tasks
\* called in any order.
NextCache ==
    \/ \E a \in {AddBase, [AddBase EXCEPT !.status = "Blocked"]} : Add(a)
    \/ \E i \in TaskIds, u \in {U("NewStatus", Some("Finished")), U("NewStatus", Some("Blocked"))} : Edit(EditArgs(i, 1, u))
    \/ \E i \in TaskIds : Delete(i)
    \/ \E task_ids \in BatchInputs : DeleteBatch(task_ids)
    \/ \E force_refresh \in BOOLEAN : List(force_refresh)

SpecCache == InitCache /\ [][NextCache]_vars

(***************************************************************************)
(* Types                                                                   *)
(***************************************************************************)
TypeOK ==
    /\ users \subseteq UserIds
    /\ seq \in 0..(MaxNow + MaxRows)
    /\ now \in 0..MaxNow
    /\ cache_dirty \in BOOLEAN
    /\ last.op \in {"__init__", "Register", "add_task", "edit_task", "delete_task"} => last.ret \in BOOLEAN
    /\ sqlite_master \subseteq {"USER", "KANBAN"}

(***************************************************************************)
(* Properties of the task store                                            *)
(***************************************************************************)
\* The four values of the status enumeration, as the specification lists them.
Enumeration == {"To-Do", "In Progress", "Waiting Review", "Finished"}

StoreOps == {"add_task", "edit_task", "delete_task"}

\* A text that is empty or holds nothing but whitespace.
Blank(t) == \A i \in 1..Len(t) : t[i] = " "

\* s is t without its leading and trailing whitespace.
Trimmed(t, s) ==
    \E i \in 1..(Len(t) + 1), j \in 0..Len(t) :
        /\ s = SubSeq(t, i, j)
        /\ \A k \in 1..(i - 1) : t[k] = " "
        /\ \A k \in (j + 1)..Len(t) : t[k] = " "
        /\ s # <<>> => (s[1] # " " /\ s[Len(s)] # " ")

\* The call passed the named field with a value other than None.
Passed(key) == key \in last.args.updates.keys /\ last.args.updates[key] # None

\* C1: after any sequence of Add, Edit and Delete calls, successful or failed,
\* every persisted task has one of the four statuses To-Do, In Progress,
\* Waiting Review, Finished.
C1_StatusInEnumeration ==
    \A i \in 1..Len(kanban) : kanban[i].Status \in Enumeration

\* A task whose status an earlier Edit has changed survives an Edit that
\* supplies the status Blocked.
C1_Witness ==
    /\ last.op = "edit_task"
    /\ Passed("NewStatus")
    /\ last.args.updates.NewStatus = Some("Blocked")
    /\ \E i \in 1..Len(kanban) :
          /\ kanban[i].ID = last.args.task_id
          /\ kanban[i].Editors # None
          /\ kanban[i].Status = "In Progress"

\* C2: whenever Add, Edit or Delete reports failure, the persisted tasks and
\* every field of each of them are the same as before the call, and no write
\* reached the storage.
C2_FailedCallChangesNothing ==
    (last.op \in StoreOps /\ ~last.ret) => (kanban = before /\ last.calls = <<>>)

\* An Edit of an existing task fails on its due date although the additional
\* information supplied with it was valid.
C2_Witness ==
    /\ last.op = "edit_task"
    /\ ~last.ret
    /\ last.out = "ValueError: Due date must be in YYYY-MM-DD format"
    /\ Passed("NewAdditionalInfo")
    /\ before # <<>>

\* C3: Add with a status outside the enumeration fails with the invalid-status
\* message, never invokes the storage Add and leaves the set of tasks unchanged.
C3_AddInvalidStatusPersistsNothing ==
    (last.op = "add_task" /\ last.args.status \notin Enumeration)
        => /\ ~last.ret
           /\ last.out = "Add Task Failed: Status is not valid"
           /\ last.calls = <<>>
           /\ kanban = before

\* Add with status Blocked on a board that already holds a task.
C3_Witness ==
    /\ last.op = "add_task"
    /\ last.args.status = "Blocked"
    /\ before # <<>>

\* C4: Add fails and persists nothing whenever personInCharge or creator is
\* not a registered user at the time of the call; so the task a successful Add
\* creates has a registered creator and personInCharge, and every persisted
\* creator is a registered user.
C4_AddUnknownUserPersistsNothing ==
    /\ (last.op = "add_task"
        /\ (last.args.person_in_charge \notin users \/ last.args.creator \notin users))
           => /\ ~last.ret
              /\ last.calls = <<>>
              /\ kanban = before
              /\ last.args.status \in Enumeration
                    => last.out \in {"Add Task Failed: Person in charge does not exist",
                                     "Add Task Failed: Creator does not exist"}
    /\ (last.op = "add_task" /\ last.ret)
           => /\ kanban[Len(kanban)].Creator = last.args.creator
              /\ kanban[Len(kanban)].Creator \in users
              /\ kanban[Len(kanban)].PersonInCharge \in users
    /\ \A i \in 1..Len(kanban) : kanban[i].Creator \in users

\* Add with a valid status, a title and a registered person in charge, but a
\* creator who is not registered.
C4_Witness ==
    /\ last.op = "add_task"
    /\ last.args.status \in Enumeration
    /\ ~Blank(last.args.title)
    /\ last.args.person_in_charge \in users
    /\ last.args.creator \notin users
    /\ last.args.creator > 0

\* C5: Add fails and persists nothing when the title is empty or whitespace
\* only, and no persisted task has an empty or whitespace-only title.
C5_AddBlankTitlePersistsNothing ==
    /\ (last.op = "add_task" /\ Blank(last.args.title))
           => /\ ~last.ret
              /\ last.calls = <<>>
              /\ kanban = before
              /\ (/\ last.args.status \in Enumeration
                  /\ last.args.person_in_charge \in users
                  /\ last.args.creator \in users)
                    => last.out = "ValueError: Task title cannot be empty"
    /\ \A i \in 1..Len(kanban) : ~Blank(kanban[i].Title)

\* Add with a whitespace-only title and otherwise valid arguments.
C5_Witness ==
    /\ last.op = "add_task"
    /\ last.args.title = <<" ">>
    /\ last.args.status \in Enumeration
    /\ last.args.person_in_charge \in users
    /\ last.args.creator \in users
    /\ last.args.creator > 0
    /\ last.args.person_in_charge > 0

\* The task read by get_task under the ID the last call inserted.
AddedTask == get_task(kanban, now, NewIds(before, kanban)[1])

\* C6 as stated: after a successful Add, Get of the new task returns title,
\* status, personInCharge, dueDate, creator and additionalInfo each equal to
\* the value supplied, also for titles with leading or trailing whitespace.
C6_RoundTripVerbatim ==
    (last.op = "add_task" /\ last.ret)
        => /\ NewIds(before, kanban) # <<>>
           /\ AddedTask # None
           /\ AddedTask[1].title = last.args.title
           /\ AddedTask[1].status = last.args.status
           /\ AddedTask[1].person_in_charge = last.args.person_in_charge
           /\ AddedTask[1].due_date = last.args.due_date
           /\ AddedTask[1].creator = last.args.creator
           /\ AddedTask[1].additional_info = last.args.additional_info

\* C6 as amended: after a successful Add, Get of the new task returns the
\* supplied title without its leading and trailing whitespace, and status,
\* personInCharge, dueDate, creator and additionalInfo each equal to the value
\* supplied.
C6_RoundTripStripped ==
    (last.op = "add_task" /\ last.ret)
        => /\ NewIds(before, kanban) # <<>>
           /\ AddedTask # None
           /\ Trimmed(last.args.title, AddedTask[1].title)
           /\ AddedTask[1].status = last.args.status
           /\ AddedTask[1].person_in_charge = last.args.person_in_charge
           /\ AddedTask[1].due_date = last.args.due_date
           /\ AddedTask[1].creator = last.args.creator
           /\ AddedTask[1].additional_info = last.args.additional_info

\* A successful Add of a title with whitespace on both sides, by a creator
\* other than the person in charge.
C6_Witness ==
    /\ last.op = "add_task"
    /\ last.ret
    /\ last.args.title = <<" ", "a", " ">>
    /\ last.args.creator # last.args.person_in_charge

\* C7: the ID given to a newly added task differs from the ID of every task
\* that exists or has ever existed, deleted ones included: no ID is given
\* twice, no two persisted tasks share an ID, and every persisted ID was given
\* by an Add.
C7_IdsNeverReused ==
    /\ \A i, j \in 1..Len(issued) : i # j => issued[i] # issued[j]
    /\ \A i, j \in 1..Len(kanban) : i # j => kanban[i].ID # kanban[j].ID
    /\ Ids(kanban) \subseteq Range(issued)

\* A successful Add on a board from which a task was deleted earlier.
C7_Witness ==
    /\ last.op = "add_task"
    /\ last.ret
    /\ \E i \in 1..Len(issued) : issued[i] \notin Ids(kanban)

\* C8: an Edit, successful or failed and whatever fields it supplies, leaves
\* the ID, the creator and the creation timestamp of every task as they were.
C8_EditKeepsIdentity ==
    last.op = "edit_task"
        => /\ Len(kanban) = Len(before)
           /\ \A i \in 1..Len(before) :
                 \E j \in 1..Len(kanban) :
                    /\ kanban[j].ID = before[i].ID
                    /\ kanban[j].Creator = before[i].Creator
                    /\ kanban[j].CreationDate = before[i].CreationDate

\* A successful Edit, at a later instant than the Add, that supplies all five
\* fields to a task created by another user than the editor.
C8_Witness ==
    /\ last.op = "edit_task"
    /\ last.ret
    /\ last.calls = <<"EditTask">>
    /\ \A k \in UpdateKeys : Passed(k)
    /\ \E i \in 1..Len(kanban) :
          /\ kanban[i].ID = last.args.task_id
          /\ kanban[i].Editors = Some(last.args.editor)
          /\ kanban[i].Creator # last.args.editor

\* C9: an Edit that supplies a status outside the enumeration fails, persists
\* none of the fields supplied with it and no editor, and never invokes the
\* storage Edit.
C9_EditInvalidStatusRejected ==
    (last.op = "edit_task" /\ Passed("NewStatus")
     /\ last.args.updates.NewStatus[1] \notin Enumeration)
        => /\ ~last.ret
           /\ last.calls = <<>>
           /\ kanban = before

\* An Edit of an existing task by a registered editor supplies a valid title,
\* person in charge, due date and additional information with status Blocked.
C9_Witness ==
    /\ last.op = "edit_task"
    /\ last.out = "ValueError: Invalid status"
    /\ \A k \in UpdateKeys : Passed(k)
    /\ last.args.updates.NewPersonInCharge[1] \in users
    /\ last.args.task_id \in Ids(before)

\* C10: an Edit on an ID that resolves to no persisted task fails with the
\* task-not-found message and changes nothing, whatever editor and updates are
\* supplied.
C10_EditUnknownIdChangesNothing ==
    (last.op = "edit_task" /\ last.args.task_id \notin Ids(before))
        => /\ ~last.ret
           /\ last.out = "Edit Task Failed: Task not found"
           /\ last.calls = <<>>
           /\ kanban = before

\* An Edit with a registered editor and a valid new status on the ID of a
\* task that was deleted.
C10_Witness ==
    /\ last.op = "edit_task"
    /\ last.args.task_id \in Range(issued)
    /\ last.args.task_id \notin Ids(before)
    /\ last.args.editor \in users
    /\ Passed("NewStatus")
    /\ last.args.updates.NewStatus[1] \in Enumeration

\* The row of the table that holds the given id (the id is in the table).
RowOf(KANBAN, id) == KANBAN[CHOOSE i \in 1..Len(KANBAN) : KANBAN[i].ID = id]

\* C11: an Edit whose acting editor is not a registered user, or that supplies
\* a person in charge who is not a registered user, fails and persists
\* nothing; when the task exists the failure names the unknown user.  So in
\* every persisted task the person in charge is a registered user, and so is
\* the editor when there is one.
C11_EditUnknownUserRejected ==
    /\ (/\ last.op = "edit_task"
        /\ \/ last.args.editor \notin users
           \/ Passed("NewPersonInCharge") /\ last.args.updates.NewPersonInCharge[1] \notin users)
       => /\ ~last.ret
          /\ last.calls = <<>>
          /\ kanban = before
          /\ (last.args.task_id \in Ids(before) /\ last.args.editor \notin users)
                => last.out = "Edit Task Failed: Editor does not exist"
          /\ (/\ last.args.task_id \in Ids(before)
              /\ last.args.editor \in users
              /\ ~Passed("NewTitle") /\ ~Passed("NewStatus")
              /\ last.args.updates.NewPersonInCharge[1] > 0)
                => last.out = "ValueError: User does not exist"
    /\ \A i \in 1..Len(kanban) :
          /\ kanban[i].PersonInCharge \in users
          /\ kanban[i].Editors # None => kanban[i].Editors[1] \in users

\* A registered editor hands an existing task to a phone number that has not
\* registered.
C11_Witness ==
    /\ last.op = "edit_task"
    /\ last.args.task_id \in Ids(before)
    /\ last.args.editor \in users
    /\ Passed("NewPersonInCharge")
    /\ last.args.updates.NewPersonInCharge[1] > 0
    /\ last.args.updates.NewPersonInCharge[1] \notin users
    /\ ~last.ret

\* The fields of the call that were passed with a value other than None.
PassedKeys == {k \in UpdateKeys : Passed(k)}

\* C12: a successful Edit changes, in the task it names, only the fields the
\* call supplies (and the editor), and no other task.  An Edit that supplies
\* the status alone leaves title, person in charge, due date and additional
\* information as they were, sets the status, and sets the editor to the
\* acting user.
C12_EditChangesNamedFieldsOnly ==
    (last.op = "edit_task" /\ last.ret) =>
        /\ last.args.task_id \in Ids(before)
        /\ Len(kanban) = Len(before)
        /\ \A i \in 1..Len(before) :
              before[i].ID # last.args.task_id => kanban[i] = before[i]
        /\ LET b == RowOf(before, last.args.task_id)
               r == RowOf(kanban, last.args.task_id)
           IN  /\ ~Passed("NewTitle") => r.Title = b.Title
               /\ ~Passed("NewStatus") => r.Status = b.Status
               /\ ~Passed("NewPersonInCharge") => r.PersonInCharge = b.PersonInCharge
               /\ ~Passed("NewDueDate") => r.DueDate = b.DueDate
               /\ ~Passed("NewAdditionalInfo") => r.AdditionalInfo = b.AdditionalInfo
               /\ PassedKeys = {"NewStatus"} =>
                     r = [b EXCEPT !.Status = last.args.updates.NewStatus[1],
                                   !.Editors = Some(last.args.editor)]

\* On a board of two tasks, an Edit that supplies the status alone moves one
\* of them to another status.
C12_Witness ==
    /\ last.op = "edit_task"
    /\ last.ret
    /\ PassedKeys = {"NewStatus"}
    /\ Len(before) = 2
    /\ RowOf(kanban, last.args.task_id).Status # RowOf(before, last.args.task_id).Status
    /\ RowOf(before, last.args.task_id).AdditionalInfo # ""

\* C13: an Edit of an existing task that supplies no field (every update is
\* absent or None) is a no-op: nothing is written, and the task, its editor
\* included, and every other task stay as they were; made by a registered
\* editor, the call reports success.
C13_EditWithoutFieldsIsNoOp ==
    (/\ last.op = "edit_task"
     /\ last.args.task_id \in Ids(before)
     /\ PassedKeys = {}) =>
        /\ last.calls = <<>>
        /\ kanban = before
        /\ RowOf(kanban, last.args.task_id).Editors = RowOf(before, last.args.task_id).Editors
        /\ last.args.editor \in users =>
              (last.ret /\ last.out = "No valid changes specified")

\* The Move-task menu with a blank status: the status is passed as None, for a
\* task nobody has edited yet.
C13_Witness ==
    /\ last.op = "edit_task"
    /\ last.args.task_id \in Ids(before)
    /\ last.args.editor \in users
    /\ last.args.updates.keys = {"NewStatus"}
    /\ last.args.updates.NewStatus = None
    /\ RowOf(before, last.args.task_id).Editors = None
    /\ last.ret

\* Some field of the edited task, other than the editor, has another value
\* after the call than before it.
FieldChanged ==
    LET b == RowOf(before, last.args.task_id)
        r == RowOf(kanban, last.args.task_id)
    IN  \/ r.Title # b.Title
        \/ r.Status # b.Status
        \/ r.PersonInCharge # b.PersonInCharge
        \/ r.DueDate # b.DueDate
        \/ r.AdditionalInfo # b.AdditionalInfo

\* C14: a successful Edit writes the task and sets its editor if and only if
\* at least one field changes value; an Edit whose supplied values all equal
\* the current ones writes nothing and leaves the editor as it was.
C14_EditorSetIffFieldChanged ==
    (last.op = "edit_task" /\ last.ret) =>
        /\ (last.calls # <<>>) <=> FieldChanged
        /\ ~FieldChanged =>
              RowOf(kanban, last.args.task_id).Editors
                = RowOf(before, last.args.task_id).Editors

\* The fields among title, status and due date that the call supplies as the
\* empty string.
EmptyKeys ==
    {k \in {"NewTitle"} : Passed(k) /\ last.args.updates[k] = Some(<<>>)}
    \cup {k \in {"NewStatus", "NewDueDate"} : Passed(k) /\ last.args.updates[k] = Some("")}

\* Every field the call supplies with a value other than the empty string is
\* one an Edit accepts.
OtherFieldsValid ==
    LET u == last.args.updates
    IN  /\ (Passed("NewTitle") /\ "NewTitle" \notin EmptyKeys) => ~Blank(u.NewTitle[1])
        /\ (Passed("NewStatus") /\ "NewStatus" \notin EmptyKeys) => u.NewStatus[1] \in Enumeration
        /\ Passed("NewPersonInCharge") =>
              (u.NewPersonInCharge[1] > 0 /\ u.NewPersonInCharge[1] \in users)
        /\ (Passed("NewDueDate") /\ "NewDueDate" \notin EmptyKeys) =>
              strptime_ok(u.NewDueDate[1])

\* C15: in an Edit, a title, status or due date supplied as the empty string
\* is skipped: the edit does not fail because of it, the field keeps its
\* value, and the other fields supplied with it are applied.
C15_EmptyStringSkipped ==
    (/\ last.op = "edit_task"
     /\ last.args.task_id \in Ids(before)
     /\ last.args.editor \in users
     /\ EmptyKeys # {}
     /\ OtherFieldsValid) =>
        LET b == RowOf(before, last.args.task_id)
            r == RowOf(kanban, last.args.task_id)
            u == last.args.updates
        IN  /\ last.ret
            /\ "NewTitle" \in EmptyKeys => r.Title = b.Title
            /\ "NewStatus" \in EmptyKeys => r.Status = b.Status
            /\ "NewDueDate" \in EmptyKeys => r.DueDate = b.DueDate
            /\ Passed("NewAdditionalInfo") => r.AdditionalInfo = u.NewAdditionalInfo[1]
            /\ Passed("NewPersonInCharge") => r.PersonInCharge = u.NewPersonInCharge[1]

\* The last call was a successful Edit of the task id that supplied at least
\* one field.
EditApplied(id) ==
    /\ last.op = "edit_task"
    /\ last.args.task_id = id
    /\ last.ret
    /\ PassedKeys # {}

C17_DeletedIdStaysGone ==
    [][/\ \A id \in Range(issued) \ Ids(kanban) :
             /\ id \notin Ids(kanban')
             /\ get_task(kanban', now', id) = None
             /\ (last'.op = "delete_task" /\ last'.args = id) =>
                   (~last'.ret /\ last'.calls = <<>> /\ kanban' = kanban)
             /\ (last'.op = "edit_task" /\ last'.args.task_id = id) =>
                   (~last'.ret /\ last'.calls = <<>> /\ kanban' = kanban)
       /\ (last'.op = "delete_task" /\ last'.ret) =>
             /\ last'.args \in Ids(kanban)
             /\ last'.args \notin Ids(kanban')
             /\ get_task(kanban', now', last'.args) = None
       /\ (last'.op = "delete_task" /\ last'.args \notin Ids(kanban)) =>
             (~last'.ret /\ last'.calls = <<>> /\ kanban' = kanban)
      ]_vars

\* A task is added and deleted, and the Delete is tried a second time.
C17_Witness ==
    /\ last.op = "delete_task"
    /\ last.args \in Range(issued)
    /\ last.args \notin Ids(before)
    /\ ~last.ret

\* The due dates that stand for "no date": the empty string and the word the
\* Add menu stores for a blank entry.
NoDueDate == {"", "Undecided"}

\* s is a calendar date written YYYY-MM-DD, or stands for no date.
DueDateAcceptable(s) == s \in NoDueDate \/ strptime_ok(s)

\* C18: every persisted due date is a valid YYYY-MM-DD date or stands for no
\* date, and an Add or Edit that supplies any other string as the due date
\* fails and persists nothing.
C18_DueDateValidated ==
    /\ \A i \in 1..Len(kanban) : DueDateAcceptable(kanban[i].DueDate)
    /\ (last.op = "add_task" /\ ~DueDateAcceptable(last.args.due_date)) =>
          (~last.ret /\ last.calls = <<>> /\ kanban = before)
    /\ (/\ last.op = "edit_task"
        /\ Passed("NewDueDate")
        /\ ~DueDateAcceptable(last.args.updates.NewDueDate[1])) =>
          (~last.ret /\ last.calls = <<>> /\ kanban = before)

(***************************************************************************)
(* Properties of the scan                                                  *)
(***************************************************************************)
\* The scan's result holds a notification of the task id.
Notified(id) ==
    \E k \in 1..Len(last.ret) : last.ret[k].kind = "task" /\ last.ret[k].TaskID = id

\* The due date of the row is a text that reads as a calendar date.
Parseable(row) == isinstance_str(row) /\ strptime_ok(str_strip(row.DueDate))

\* The day of the row's due date, for a row that is Parseable.
DueDay(row) == strptime(str_strip(row.DueDate)).date

\* C19: the scan notifies a task whose due date is parseable if and only if
\* the due date is before the day of now, or from the day of now up to the day
\* that lies Due days after it, both ends included: a task due exactly Due
\* days after today is notified, a task due one day later is not.
C19_NotifiedIffOverdueOrInWindow ==
    last.op = "UpcomingTask" =>
        \A i \in 1..Len(kanban) :
            Parseable(kanban[i]) =>
                LET due == DueDay(kanban[i])
                    today == last.args.Now.date
                IN  /\ Notified(kanban[i].ID)
                         <=> (due < today \/ (today <= due /\ due <= today + Due))
                    /\ due = today + Due => Notified(kanban[i].ID)
                    /\ due = today + Due + 1 => ~Notified(kanban[i].ID)

\* One scan finds a task due on the last day of the window, which it
\* notifies, and a task due the day after, which it does not.
C19_Witness ==
    /\ last.op = "UpcomingTask"
    /\ \E i, j \in 1..Len(kanban) :
          /\ Parseable(kanban[i]) /\ Parseable(kanban[j])
          /\ DueDay(kanban[i]) = last.args.Now.date + Due
          /\ DueDay(kanban[j]) = last.args.Now.date + Due + 1
          /\ Notified(kanban[i].ID)
          /\ ~Notified(kanban[j].ID)

\* C20: the scan does not raise, and it notifies no task whose due date is
\* missing, empty, blank, not a text, or a text that is no calendar date (such
\* as "Undecided"); the other tasks of the table are scanned all the same.
C20_UnparseableDueDateSkipped ==
    last.op = "UpcomingTask" =>
        /\ last.out = ""
        /\ \A i \in 1..Len(kanban) :
              /\ ~Parseable(kanban[i]) => ~Notified(kanban[i].ID)
              /\ (Parseable(kanban[i]) /\ DueDay(kanban[i]) <= last.args.Now.date + Due)
                    => Notified(kanban[i].ID)

\* The first row of the table has the due date "Undecided"; the row after it
\* is overdue and is notified.
C20_Witness ==
    /\ last.op = "UpcomingTask"
    /\ Len(kanban) = 2
    /\ kanban[1].DueDate = "Undecided"
    /\ ~Notified(kanban[1].ID)
    /\ Parseable(kanban[2])
    /\ DueDay(kanban[2]) < last.args.Now.date
    /\ Notified(kanban[2].ID)

\* The places of the scan's result that hold a notification of the task id.
EntriesOf(id) ==
    {k \in 1..Len(last.ret) : last.ret[k].kind = "task" /\ last.ret[k].TaskID = id}

\* The whole seconds from the last instant of the day before now's day up to
\* now: the time of day of now and one microsecond.
SecondsSinceYesterdayEnded ==
    SecondOfDay(last.args.Now) + (IF last.args.Now.microsecond = 999999 THEN 1 ELSE 0)

\* C21 as stated: a task due on the day before now's day has exactly one
\* entry, labelled overdue by 0 days and the hours and minutes of the gap
\* between the last instant of the due date and now, at every time of day.
C21_OverdueYesterdayZeroDays ==
    last.op = "UpcomingTask" =>
        \A i \in 1..Len(kanban) :
            (Parseable(kanban[i]) /\ DueDay(kanban[i]) = last.args.Now.date - 1) =>
                /\ Cardinality(EntriesOf(kanban[i].ID)) = 1
                /\ \A k \in EntriesOf(kanban[i].ID) :
                      /\ last.ret[k].DueMessage.label = "Task overdue by"
                      /\ last.ret[k].DueMessage.Days = 0
                      /\ last.ret[k].DueMessage.Hours
                            = (SecondsSinceYesterdayEnded % 86400) \div 3600
                      /\ last.ret[k].DueMessage.Minutes
                            = (SecondsSinceYesterdayEnded % 3600) \div 60

\* C21: a task due on the day before now's day has exactly one entry,
\* labelled overdue by the days, hours and minutes of the gap between the last
\* instant of the due date and now; the days are 0 at every time of day but
\* the last microsecond, 23:59:59.999999, where the gap is one whole day and
\* the entry reads 1d 00h 00m.
C21_OverdueYesterdayGap ==
    last.op = "UpcomingTask" =>
        \A i \in 1..Len(kanban) :
            (Parseable(kanban[i]) /\ DueDay(kanban[i]) = last.args.Now.date - 1) =>
                /\ Cardinality(EntriesOf(kanban[i].ID)) = 1
                /\ \A k \in EntriesOf(kanban[i].ID) :
                      /\ last.ret[k].DueMessage.label = "Task overdue by"
                      /\ last.ret[k].DueMessage.Days
                            = (IF SecondsSinceYesterdayEnded = 86400 THEN 1 ELSE 0)
                      /\ last.ret[k].DueMessage.Hours
                            = (SecondsSinceYesterdayEnded % 86400) \div 3600
                      /\ last.ret[k].DueMessage.Minutes
                            = (SecondsSinceYesterdayEnded % 3600) \div 60

\* A task due on 2024-01-09 is scanned at half past twelve of the day after:
\* overdue by 0d 12h 30m.
C21_Witness ==
    /\ last.op = "UpcomingTask"
    /\ last.args.Now = datetime(2024, 1, 10, 12, 30, 15, 500000)
    /\ \E i \in 1..Len(kanban) :
          /\ kanban[i].DueDate = "2024-01-09"
          /\ isinstance_str(kanban[i])
          /\ \E k \in EntriesOf(kanban[i].ID) :
                last.ret[k].DueMessage
                    = [label |-> "Task overdue by", Days |-> 0, Hours |-> 12, Minutes |-> 30]

\* C22 as stated: a task due on now's day has an entry whose label reads
\* "due today" and whose days are 0, at every time of day.
C22_LabelledDueToday ==
    last.op = "UpcomingTask" =>
        \A i \in 1..Len(kanban) :
            (Parseable(kanban[i]) /\ DueDay(kanban[i]) = last.args.Now.date) =>
                /\ EntriesOf(kanban[i].ID) # {}
                /\ \A k \in EntriesOf(kanban[i].ID) :
                      /\ last.ret[k].DueMessage.label \in {"due today", "Task due today"}
                      /\ last.ret[k].DueMessage.Days = 0

\* C22: a task due on now's day has exactly one entry, at every time of day;
\* its label reads "due in" (the words "due today" are not printed), its days
\* are 0, and its hours and minutes are those left until the end of the day.
C22_DueTodayZeroDays ==
    last.op = "UpcomingTask" =>
        \A i \in 1..Len(kanban) :
            (Parseable(kanban[i]) /\ DueDay(kanban[i]) = last.args.Now.date) =>
                /\ Cardinality(EntriesOf(kanban[i].ID)) = 1
                /\ \A k \in EntriesOf(kanban[i].ID) :
                      /\ last.ret[k].DueMessage.label = "Task due in"
                      /\ last.ret[k].DueMessage.Days = 0
                      /\ last.ret[k].DueMessage.Hours
                            = (86399 - SecondOfDay(last.args.Now)) \div 3600
                      /\ last.ret[k].DueMessage.Minutes
                            = ((86399 - SecondOfDay(last.args.Now)) % 3600) \div 60

\* A task due on 2024-01-10 is scanned at the last microsecond of that day:
\* due in 0d 00h 00m.
C22_Witness ==
    /\ last.op = "UpcomingTask"
    /\ last.args.Now = datetime(2024, 1, 10, 23, 59, 59, 999999)
    /\ \E i \in 1..Len(kanban) :
          /\ kanban[i].DueDate = "2024-01-10"
          /\ isinstance_str(kanban[i])
          /\ \E k \in EntriesOf(kanban[i].ID) :
                last.ret[k].DueMessage
                    = [label |-> "Task due in", Days |-> 0, Hours |-> 0, Minutes |-> 0]

\* C23: the scan is a pure read.  A step that is a scan leaves the tables, the
\* rows, the users, the id counter and the board's cache as they were, so that
\* a Get, a List, an Edit or a Delete made after it returns what it would have
\* returned before it.
C23_ScanIsPureRead ==
    [][last'.op = "UpcomingTask" =>
          /\ kanban' = kanban
          /\ sqlite_master' = sqlite_master
          /\ users' = users
          /\ seq' = seq
          /\ issued' = issued
          /\ now' = now
          /\ tasks_cache' = tasks_cache
          /\ cache_dirty' = cache_dirty
          /\ \A force_refresh \in BOOLEAN :
                get_all_tasks(kanban', tasks_cache', cache_dirty', now', force_refresh)
                  = get_all_tasks(kanban, tasks_cache, cache_dirty, now, force_refresh)
          /\ \A id \in TaskIds :
                /\ get_task(kanban', now', id) = get_task(kanban, now, id)
                /\ delete_task(kanban', seq', now', id) = delete_task(kanban, seq, now, id)
                /\ \A e \in UserIds, u \in EditorUpdates :
                      edit_task(users', kanban', seq', now', id, e, u)
                        = edit_task(users, kanban, seq, now, id, e, u)
      ]_vars

\* Between two calls on the board, a scan has found a task of the table to
\* notify.
C23_Witness ==
    /\ last.op = "UpcomingTask"
    /\ now \in 1..(MaxNow - 1)
    /\ kanban # <<>>
    /\ EntriesOf(kanban[1].ID) # {}

\* C24: when the database has no KANBAN table, the scan returns the empty
\* list and raises nothing.
C24_AbsentTableScansEmpty ==
    (last.op = "UpcomingTask" /\ "KANBAN" \notin sqlite_master) =>
        (last.ret = <<>> /\ last.out = "")

\* A scan of a database file that holds no table at all.
C24_Witness ==
    /\ last.op = "UpcomingTask"
    /\ sqlite_master = {}
    /\ last.ret = <<>>

(***************************************************************************)
(* Properties of the login loop                                            *)
(***************************************************************************)
\* C25: in a run of the login loop, every successful login, of the
\* administrator or of a user, the first or a later one, runs the scan exactly
\* once and before the user's menu; a failed login and a login to an inactive
\* account run none.
C25_EveryLoginScansOnce ==
    \A k \in 1..Len(login.trace) :
        LET e == login.trace[k] IN
        e.choice = "1" =>
            IF e.outcome = "Admin"
            THEN e.calls = <<"PrintNotification", "InteractiveMenuAdmin">>
            ELSE IF e.outcome = "User"
            THEN e.calls = <<"PrintNotification", "interactive_menu">>
            ELSE e.calls = <<>>

(***************************************************************************)
(* Properties of the board's reads                                         *)
(***************************************************************************)
\* The row is malformed in one of the ways the specification names: it has
\* fewer than nine columns, a status outside the enumeration, an empty title,
\* a user id that is no integer, or a creation date that is no ISO text,
\* whether a text of another shape or a value of another type.
Malformed(row) ==
    \/ Cardinality(DOMAIN row) < 9
    \/ row.Status \notin Enumeration
    \/ Blank(row.Title)
    \/ row.PersonInCharge = NotAnInt
    \/ row.Creator = NotAnInt
    \/ "iso" \notin DOMAIN row.CreationDate

IdsOfRows(KANBAN) == [i \in 1..Len(KANBAN) |-> KANBAN[i].ID]

IdsOfTasks(tasks) == [i \in 1..Len(tasks) |-> tasks[i].task_id[1]]

WellFormedRows == SelectSeq(kanban, LAMBDA row : ~Malformed(row))

\* C26: whatever malformed rows the table holds, of any of the kinds named
\* (fewer than nine columns, invalid status, empty title, non-integer user id,
\* unparseable creation date, creation date of a wrong type), List skips them
\* and returns every well-formed task.
C26_ListSkipsMalformedRows ==
    last.op = "get_all_tasks" => IdsOfTasks(last.ret) = IdsOfRows(WellFormedRows)


\* The call displayed the board in the default order.
DefaultOrderShown == last.op = "display_board" /\ last.args.sort_by = "due_date"

\* The place of a due date among the due dates of the rows followed, in the
\* order of their code points, and the place of a title among the titles.
DueDatePlace(due_date) ==
    CASE due_date = "" -> 0
      [] due_date = "2024-01-09" -> 1
      [] due_date = "2024-01-10" -> 2
      [] due_date = "Undecided" -> 3

TitlePlace(title) == IF title = <<"a">> THEN 1 ELSE 2

\* Every list shown is ascending by (dueDate, title).
AscendingByDueDateAndTitle ==
    \A b \in 1..Len(last.ret) :
        \A i, j \in 1..Len(last.ret[b].tasks) :
            LET x == last.ret[b].tasks[i]
                y == last.ret[b].tasks[j]
            IN  i < j =>
                  \/ DueDatePlace(x.due_date) < DueDatePlace(y.due_date)
                  \/ /\ x.due_date = y.due_date
                     /\ TitlePlace(x.title) <= TitlePlace(y.title)

\* In every list shown, no task with a due date in `later` stands before a
\* task with a due date in `earlier`.
NeverBefore(later, earlier) ==
    \A b \in 1..Len(last.ret) :
        \A i, j \in 1..Len(last.ret[b].tasks) :
            i < j => ~(/\ last.ret[b].tasks[i].due_date \in later
                       /\ last.ret[b].tasks[j].due_date \in earlier)

Dated == {"2024-01-09", "2024-01-10"}

\* C27 as stated: the default order is ascending by (dueDate, title), and a
\* task whose due date is empty or is the word Undecided comes before every
\* dated task.
C27_SentinelDueDatesFirst ==
    DefaultOrderShown =>
        /\ AscendingByDueDateAndTitle
        /\ NeverBefore(Dated, {"", "Undecided"})

\* C27, amended: the default order is ascending by (dueDate, title), the due
\* dates compared as texts; a task with an empty due date comes before every
\* dated task, and a task whose due date is the word Undecided comes after
\* every dated task.
C27_DefaultOrderIsLexicographic ==
    DefaultOrderShown =>
        /\ AscendingByDueDateAndTitle
        /\ NeverBefore(Dated, {""})
        /\ NeverBefore({"Undecided"}, Dated)

\* A table that stores an undated task before a dated one is shown, in one
\* list, with the dated task first.
C27_Witness ==
    /\ DefaultOrderShown
    /\ ~last.args.group_by_status
    /\ Len(kanban) = 2
    /\ kanban[1].DueDate = "Undecided"
    /\ kanban[2].DueDate = "2024-01-09"
    /\ IdsOfTasks(last.ret[1].tasks) = <<2, 1>>


\* The call displayed the board grouped by status, in the default order.
GroupedShown == DefaultOrderShown /\ last.args.group_by_status /\ last.tasks # <<>>

\* The number of times the task of that id appears in a list.
Appearances(tasks, id) == Cardinality({i \in 1..Len(tasks) : tasks[i].task_id = Some(id)})

\* C28: the grouped display shows exactly four lists, for To-Do, In Progress,
\* Waiting Review and Finished in that order; every task of the board appears
\* once in the list of its status and in no other list; and every list is
\* ascending by (dueDate, title).
C28_FourBucketsInOrder ==
    GroupedShown =>
        /\ [b \in 1..Len(last.ret) |-> last.ret[b].status]
              = <<"To-Do", "In Progress", "Waiting Review", "Finished">>
        /\ \A k \in 1..Len(last.tasks) : \A b \in 1..Len(last.ret) :
              Appearances(last.ret[b].tasks, last.tasks[k].task_id[1])
                 = (IF last.ret[b].status = last.tasks[k].status THEN 1 ELSE 0)
        /\ \A b \in 1..Len(last.ret) : \A i \in 1..Len(last.ret[b].tasks) :
              \E k \in 1..Len(last.tasks) : last.tasks[k] = last.ret[b].tasks[i]
        /\ AscendingByDueDateAndTitle

\* A finished task stored before a task in progress: each is shown in the list
\* of its status, the list In Progress before the list Finished.
C28_Witness ==
    /\ GroupedShown
    /\ Len(kanban) = 2
    /\ kanban[1].Status = "Finished"
    /\ kanban[2].Status = "In Progress"
    /\ IdsOfTasks(last.ret[2].tasks) = <<2>>
    /\ IdsOfTasks(last.ret[4].tasks) = <<1>>


\* The row has a status outside the enumeration and is well-formed otherwise.
OnlyStatusInvalid(row) ==
    /\ row.Status \notin Enumeration
    /\ Cardinality(DOMAIN row) = 9
    /\ ~Malformed([row EXCEPT !.Status = "To-Do"])

\* The number of times the task of that id appears in the lists shown.
TimesShown(id) ==
    Cardinality({p \in (1..Len(last.ret)) \X (1..MaxRows + 1) :
                    /\ p[2] <= Len(last.ret[p[1]].tasks)
                    /\ last.ret[p[1]].tasks[p[2]].task_id = Some(id)})

\* C29: when the board is displayed grouped by status and the table holds
\* rows whose status is outside the enumeration, the other rows being
\* well-formed, the display is produced, no task of such a row is shown, and
\* every other task is shown once, in the list of its status.
C29_InvalidStatusDropped ==
    (/\ last.op = "display_board"
     /\ last.args.group_by_status
     /\ \A i \in 1..Len(kanban) : Malformed(kanban[i]) => OnlyStatusInvalid(kanban[i]))
    => \A i \in 1..Len(kanban) :
          IF kanban[i].Status \notin Enumeration
          THEN TimesShown(kanban[i].ID) = 0
          ELSE /\ TimesShown(kanban[i].ID) = 1
               /\ \E b \in 1..Len(last.ret) :
                     /\ last.ret[b].status = kanban[i].Status
                     /\ Appearances(last.ret[b].tasks, kanban[i].ID) = 1

\* A row of status Blocked stored before a well-formed row: the board shows
\* the second task alone.
C29_Witness ==
    /\ last.op = "display_board"
    /\ last.args.group_by_status
    /\ Len(kanban) = 2
    /\ OnlyStatusInvalid(kanban[1])
    /\ ~Malformed(kanban[2])
    /\ last.out = "KANBAN BOARD"
    /\ TimesShown(1) = 0
    /\ TimesShown(2) = 1


(***************************************************************************)
(* Properties of the scan: the order of the entries                        *)
(***************************************************************************)
\* The place of the row of that id in the rows the scan read.
PlaceOfRow(id) == CHOOSE i \in 1..Len(kanban) : kanban[i].ID = id

\* C30: the entries of a scan stand in the order of the rows read: when the
\* entry of task A stands before the entry of task B, the row of A was read
\* before the row of B.
C30_EntriesInStorageOrder ==
    last.op = "UpcomingTask" =>
        \A p, q \in 1..Len(last.ret) :
            (p < q /\ last.ret[p].kind = "task" /\ last.ret[q].kind = "task")
               => PlaceOfRow(last.ret[p].TaskID) < PlaceOfRow(last.ret[q].TaskID)

\* Two rows are notified, the first due a day after the second: the entry of
\* the first row stands first all the same.
C30_Witness ==
    /\ last.op = "UpcomingTask"
    /\ Len(kanban) = 2
    /\ kanban[1].DueDate = "2024-01-10"
    /\ kanban[2].DueDate = "2024-01-09"
    /\ Len(last.ret) = 5
    /\ last.ret[2].kind = "task" /\ last.ret[2].TaskID = kanban[1].ID
    /\ last.ret[4].kind = "task" /\ last.ret[4].TaskID = kanban[2].ID


(***************************************************************************)
(* Properties of the scan: the users of an entry                           *)
(***************************************************************************)
\* What an entry shows for a user: the row of USER, or None, which is printed
\* as the word None, when the phone number is null or is not in USER.
ShownFor(PhoneNo) ==
    IF PhoneNo = None \/ PhoneNo[1] \notin users THEN None ELSE Some([PhoneNo |-> PhoneNo[1]])

\* The row is due within the window of the scan or before it.
DueForNotice(row) ==
    /\ Parseable(row)
    /\ DueDay(row) <= last.args.Now.date + Due

\* C31: the scan does not raise, and a task that is due for a notice has its
\* entry whether or not its person in charge, its creator and its editor are
\* in the user directory: a user that is missing, the null editor included,
\* is shown by a placeholder.
C31_UnresolvedUserShownByPlaceholder ==
    last.op = "UpcomingTask" =>
        /\ last.out = ""
        /\ \A i \in 1..Len(kanban) :
              DueForNotice(kanban[i]) =>
                 /\ Cardinality(EntriesOf(kanban[i].ID)) = 1
                 /\ \A k \in EntriesOf(kanban[i].ID) :
                       /\ last.ret[k].PersonInCharge = ShownFor(Some(kanban[i].PersonInCharge))
                       /\ last.ret[k].Creator = ShownFor(Some(kanban[i].Creator))
                       /\ last.ret[k].Editor = ShownFor(kanban[i].Editors)

\* One scan makes the entries of a task whose person in charge is not in the
\* directory and of a task whose editor is null.
C31_Witness ==
    /\ last.op = "UpcomingTask"
    /\ Len(kanban) = 2
    /\ DueForNotice(kanban[1]) /\ DueForNotice(kanban[2])
    /\ kanban[1].PersonInCharge \notin users
    /\ kanban[2].Editors = None
    /\ \E k \in EntriesOf(kanban[1].ID) : last.ret[k].PersonInCharge = None
    /\ \E k \in EntriesOf(kanban[2].ID) : last.ret[k].Editor = None


(***************************************************************************)
(* Properties of the license gate                                          *)
(***************************************************************************)
\* The key typed is a key of the license file.
ValidKey(typed) ==
    /\ main.LICENSE_FILE # None
    /\ \E i \in 1..Len(main.LICENSE_FILE[1]) : main.LICENSE_FILE[1][i] = "0000-1111-2222-3333"
    /\ typed \in {"0000-1111-2222-3333", " 0000-1111-2222-3333 "}

\* C32: the license gate asks for a key at most three times; it asks no more
\* once a valid key was entered, and Login is entered exactly then; after three
\* invalid keys it has printed that the license verification failed, main has
\* printed that there is no access, and the login loop has not been entered.
C32_LicenseGate ==
    /\ Len(main.keys) <= 3
    /\ \A i \in 1..(Len(main.keys) - 1) : ~ValidKey(main.keys[i])
    /\ main.pc = "Login" <=> (main.keys # <<>> /\ ValidKey(main.keys[Len(main.keys)]))
    /\ main.pc # "Login" => login = LoginStarted
    /\ (/\ Len(main.keys) = 3
        /\ main.LICENSE_FILE # None
        /\ \A i \in 1..3 : ~ValidKey(main.keys[i]))
       => /\ main.pc = "returned"
          /\ SubSeq(main.printed, Len(main.printed) - 1, Len(main.printed))
                = <<"License verification failed.", "You have no access to this system.">>

\* Three invalid keys were entered against a license file that holds a key.
C32_Witness ==
    /\ Len(main.keys) = 3
    /\ main.LICENSE_FILE = Some(<<"# keys", "0000-1111-2222-3333", " ">>)
    /\ main.pc = "returned"
    /\ login = LoginStarted


(***************************************************************************)
(* Properties of the user accounts                                         *)
(***************************************************************************)
\* C33: every user created is inactive (activation status 0) unless the
\* position is Admin, and active (activation status 1) when it is Admin.
C33_OnlyAdminsActiveByDefault ==
    \A i \in 1..Len(users_db) :
        users_db[i].IsActive = (IF users_db[i].Position = "Admin" THEN 1 ELSE 0)


(***************************************************************************)
(* Properties of the status codes                                          *)
(***************************************************************************)
\* The number a text typed at the prompt stands for, as [int |-> n], and the
\* text itself, as [str |-> s], when it stands for none.
CodeTyped(typed) ==
    CASE typed \in {"1"} -> [int |-> 1]
      [] typed \in {"2", " 2 "} -> [int |-> 2]
      [] typed \in {"3", "+3"} -> [int |-> 3]
      [] typed \in {"4", "04"} -> [int |-> 4]
      [] typed = "0" -> [int |-> 0]
      [] typed = "5" -> [int |-> 5]
      [] typed = "-1" -> [int |-> -1]
      [] OTHER -> [str |-> typed]

\* The status of a code, as the specification lists them.
StatusOfCode(code) ==
    IF "int" \notin DOMAIN code THEN None
    ELSE IF code.int = 1 THEN Some("To-Do")
    ELSE IF code.int = 2 THEN Some("In Progress")
    ELSE IF code.int = 3 THEN Some("Waiting Review")
    ELSE IF code.int = 4 THEN Some("Finished")
    ELSE None

StatusAsked == last.op = "interactive_menu: New status"

\* The text typed gives a status, or it is another number or no number.
NoCode(typed) == StatusOfCode(CodeTyped(typed)) = None

\* The status is one of the codes' statuses, the board is not called and no
\* row is written while a menu asks, and for every text typed the menu gives
\* what TaskStatus.from_number gives.
ConversionAgrees ==
    LET typed == last.args.typed IN
    /\ last.ret = StatusOfCode(CodeTyped(typed[Len(typed)]))
    /\ \A k \in 1..Len(typed) :
          /\ StatusPrompt(last.args.menu, typed[k]).Status = from_number(CodeTyped(typed[k]))
          /\ from_number(CodeTyped(typed[k])) = StatusOfCode(CodeTyped(typed[k]))
    /\ last.calls = <<>>
    /\ kanban = before

\* C34 as stated: at the status prompt of a menu the codes 1, 2, 3 and 4 give
\* To-Do, In Progress, Waiting Review and Finished; any other number and any
\* text that is no number gives no status and the prompt is shown again; no
\* such input reaches the store; the menu gives what from_number gives.
C34_EveryOtherInputAskedAgain ==
    StatusAsked =>
        /\ ConversionAgrees
        /\ \A k \in 1..Len(last.args.typed) :
              NoCode(last.args.typed[k]) => (k < Len(last.args.typed) \/ last.asking)

\* C34, amended: as stated, except that nothing typed (a blank input) at the
\* prompt of the Move menu or of the Edit menu ends the prompt with no status
\* instead of showing it again.
C34_StatusCodes ==
    StatusAsked =>
        /\ ConversionAgrees
        /\ \A k \in 1..Len(last.args.typed) :
              LET typed == last.args.typed[k]
                  asked_again == k < Len(last.args.typed) \/ last.asking
              IN  NoCode(typed) =>
                     (asked_again <=> ~(last.args.menu \in {"Move", "Edit"} /\ typed \in {"", " "}))
        /\ Len(last.out) = Cardinality({k \in 1..Len(last.args.typed) :
                                          /\ NoCode(last.args.typed[k])
                                          /\ (k < Len(last.args.typed) \/ last.asking)})

\* In the Move menu the number 5 was typed and the prompt was shown again,
\* then nothing was typed and the prompt ended with no status.
C34_Witness ==
    /\ StatusAsked
    /\ last.args.menu = "Move"
    /\ last.args.typed = <<"5", "">>
    /\ last.out = <<"Status is not valid">>
    /\ last.ret = None
    /\ ~last.asking

\* The tasks of the well-formed rows of the table, in row order.
WellFormedPersisted ==
    LET all == [k \in 1..Len(kanban) |-> from_database_row(kanban[k], now)]
        good == SelectSeq([k \in 1..Len(kanban) |-> k], LAMBDA k : all[k].exc = "")
    IN  [j \in 1..Len(good) |-> all[good[j]].task]

\* C35: the cache of a board is never stale: after any calls of add_task,
\* edit_task, delete_task and get_all_tasks, get_all_tasks without
\* force_refresh returns exactly the tasks of the well-formed rows the table
\* holds, with the values the rows hold.
C35_CacheNeverStale ==
    (last.op = "get_all_tasks" /\ ~last.args.force_refresh) => last.ret = WellFormedPersisted

\* The same for a table that holds no row with a creation date of a wrong type.
CacheFreshWithoutTypeErrors ==
    (/\ last.op = "get_all_tasks"
     /\ ~last.args.force_refresh
     /\ \A k \in 1..Len(kanban) : from_database_row(kanban[k], now).exc \notin TypeErrors)
    => last.ret = WellFormedPersisted

\* C36: the label of an entry agrees with the test that included the task,
\* at every time of day of now: the entry of a notified task reads "overdue
\* by" if and only if the day of its due date is before the day of now, and
\* "due in" otherwise.
C36_LabelAgreesWithInclusion ==
    last.op = "UpcomingTask" =>
        \A i \in 1..Len(kanban) :
            (Parseable(kanban[i]) /\ Notified(kanban[i].ID)) =>
                \A k \in EntriesOf(kanban[i].ID) :
                    /\ last.ret[k].DueMessage.label = "Task overdue by"
                          <=> DueDay(kanban[i]) < last.args.Now.date
                    /\ last.ret[k].DueMessage.label = "Task due in"
                          <=> DueDay(kanban[i]) >= last.args.Now.date

\* One scan at the first instant of 2024-01-10 finds a task due the day
\* before, which reads overdue, and a task due that day, which reads due in.
C36_Witness ==
    /\ last.op = "UpcomingTask"
    /\ last.args.Now = datetime(2024, 1, 10, 0, 0, 0, 0)
    /\ \E i, j \in 1..Len(kanban) :
          /\ Parseable(kanban[i]) /\ Parseable(kanban[j])
          /\ DueDay(kanban[i]) = last.args.Now.date - 1
          /\ DueDay(kanban[j]) = last.args.Now.date
          /\ \E k \in EntriesOf(kanban[i].ID) : last.ret[k].DueMessage.label = "Task overdue by"
          /\ \E k \in EntriesOf(kanban[j].ID) : last.ret[k].DueMessage.label = "Task due in"

\* The days between the day of now and the day of the row's due date: positive
\* for a due date after today.
DaysAfterToday(row) == DueDay(row) - last.args.Now.date

\* The hours are within 0..23 and the minutes within 0..59 in every entry.
HoursAndMinutesInRange ==
    \A k \in 1..Len(last.ret) :
        last.ret[k].kind = "task" =>
            /\ last.ret[k].DueMessage.Hours \in 0..23
            /\ last.ret[k].DueMessage.Minutes \in 0..59

\* A notified task due d >= 0 days after today shows exactly d days.
DueInDaysExact ==
    \A i \in 1..Len(kanban) :
        (Parseable(kanban[i]) /\ Notified(kanban[i].ID) /\ DaysAfterToday(kanban[i]) >= 0) =>
            \A k \in EntriesOf(kanban[i].ID) :
                last.ret[k].DueMessage.Days = DaysAfterToday(kanban[i])

\* C37 as stated: hours within 0..23, minutes within 0..59; a task due d >= 0
\* days after today shows exactly d days; a task due d >= 1 days before today
\* shows exactly d - 1 days.
C37_OverdueDaysOneLess ==
    last.op = "UpcomingTask" =>
        /\ HoursAndMinutesInRange
        /\ DueInDaysExact
        /\ \A i \in 1..Len(kanban) :
              (Parseable(kanban[i]) /\ DaysAfterToday(kanban[i]) <= -1) =>
                  \A k \in EntriesOf(kanban[i].ID) :
                      last.ret[k].DueMessage.Days = -DaysAfterToday(kanban[i]) - 1

\* C37: hours within 0..23, minutes within 0..59; a task due d >= 0 days
\* after today shows exactly d days; a task due d >= 1 days before today
\* shows exactly d - 1 days, except at the last microsecond of the day of now,
\* 23:59:59.999999, where the gap is d whole days and it shows d days.
C37_DaysComponent ==
    last.op = "UpcomingTask" =>
        /\ HoursAndMinutesInRange
        /\ DueInDaysExact
        /\ \A i \in 1..Len(kanban) :
              (Parseable(kanban[i]) /\ DaysAfterToday(kanban[i]) <= -1) =>
                  /\ EntriesOf(kanban[i].ID) # {}
                  /\ \A k \in EntriesOf(kanban[i].ID) :
                        last.ret[k].DueMessage.Days
                            = (IF SecondsSinceYesterdayEnded = 86400
                               THEN -DaysAfterToday(kanban[i])
                               ELSE -DaysAfterToday(kanban[i]) - 1)

\* One scan at half past twelve of 2025-03-01 finds a task due 2024-01-09,
\* 417 days before, which shows 416 days.
C37_Witness ==
    /\ last.op = "UpcomingTask"
    /\ last.args.Now = datetime(2025, 3, 1, 12, 30, 15, 500000)
    /\ \E i \in 1..Len(kanban) :
          /\ Parseable(kanban[i])
          /\ DaysAfterToday(kanban[i]) = -417
          /\ \E k \in EntriesOf(kanban[i].ID) :
                last.ret[k].DueMessage
                    = [label |-> "Task overdue by", Days |-> 416, Hours |-> 12, Minutes |-> 30]

\* The rows the scan includes: the due date reads as a calendar date that is
\* before the day of now or within Due days from it.
Included ==
    {i \in 1..Len(kanban) :
        /\ Parseable(kanban[i])
        /\ DueDay(kanban[i]) <= last.args.Now.date + Due}

\* C38: when the KANBAN table exists the scan returns exactly 2k + 1 elements
\* for k included tasks: a separator, then an entry and a separator for each
\* task; a single separator when no task is included; the empty sequence is
\* returned only when the table does not exist.
C38_SeparatorsAndEntriesAlternate ==
    last.op = "UpcomingTask" =>
        /\ last.out = ""
        /\ "KANBAN" \in sqlite_master =>
              /\ Len(last.ret) = 2 * Cardinality(Included) + 1
              /\ \A k \in 1..Len(last.ret) :
                    last.ret[k].kind = (IF k % 2 = 1 THEN "separator" ELSE "task")
              /\ Included = {} => last.ret = <<Separator>>
        /\ last.ret = <<>> <=> "KANBAN" \notin sqlite_master

\* One scan of a table of two rows includes both: five elements, separators
\* at the odd places and the two entries at the even places.
C38_Witness ==
    /\ last.op = "UpcomingTask"
    /\ "KANBAN" \in sqlite_master
    /\ Cardinality(Included) = 2
    /\ Len(last.ret) = 5
    /\ last.ret[1] = Separator /\ last.ret[3] = Separator /\ last.ret[5] = Separator
    /\ last.ret[2].kind = "task" /\ last.ret[4].kind = "task"

\* The places of the list whose id had a row when it was processed: the id
\* has a row before the call and stands at no earlier place of the list.
ExistedWhenProcessed ==
    {k \in 1..Len(last.args) :
        /\ last.args[k] \in Ids(before)
        /\ \A j \in 1..(k - 1) : last.args[j] # last.args[k]}

\* The ids at the places of the set, in the order of the list.
IdsAt(places) ==
    LET at == SelectSeq([k \in 1..Len(last.args) |-> k], LAMBDA k : k \in places)
    IN  [j \in 1..Len(at) |-> last.args[at[j]]]

\* C39: delete_tasks_batch puts every occurrence of an id of its list in
\* exactly one of 'successful' and 'failed', 'not_found' stays empty; the
\* occurrence is in 'successful' exactly when the id had a row when it was
\* processed, so that of an id listed twice the first is successful and the
\* second failed; after the call the table holds no row of a listed id.
C39_BatchDeletesEveryListedTask ==
    last.op = "delete_tasks_batch" =>
        /\ last.ret.not_found = <<>>
        /\ last.ret.successful = IdsAt(ExistedWhenProcessed)
        /\ last.ret.failed = IdsAt((1..Len(last.args)) \ ExistedWhenProcessed)
        /\ \A k \in 1..Len(last.args) : last.args[k] \notin Ids(kanban)

\* The same for a table all of whose rows are well-formed.
BatchDeletesWellFormed ==
    (\A k \in 1..Len(before) : from_database_row(before[k], now).exc = "")
    => C39_BatchDeletesEveryListedTask

====
